---------------------------- MODULE Spec2Model ----------------------------
(***************************************************************************)
(* ComprehensiveLatencyBenchmark (comprehensive-latency-benchmark.ts) and  *)
(* the part of KvasirClient's SSE subscription it drives.                  *)
(*                                                                         *)
(* One Node.js event loop: every action below is one macrotask (a timer    *)
(* callback, an SSE message, the resumption of an awaited call) together   *)
(* with the microtasks it triggers.  Time is the wall clock in             *)
(* milliseconds, observed on a grid of UnitMs: a timer fires at the first  *)
(* grid instant at or after its deadline.                                  *)
(*                                                                         *)
(* Spec is the benchmark on a connection that stays up; ConnSpec the       *)
(* benchmark with a failing connection and an unreachable store; StatsSpec *)
(* the statistics functions on given latencies; SubscriberSpec the event   *)
(* handler of RealtimeSSESubscriber (examples/pub-sub-integration.ts);     *)
(* SseSpec and PollSpec a client holding a handle of KvasirClient's        *)
(* subscribeToMeasurementsSSE and subscribeToMeasurementsPolling;          *)
(* RetrySpec the SSE client on an EventSource that also reconnects by      *)
(* itself; ChangeSpec what subscribeToMeasurementsSSE hands on of one      *)
(* change; ReplaySpec one replay of KvasirReplayer, in realtime-frequency  *)
(* or in historical mode; ReplayerSpec one replay in any mode and config,  *)
(* which may be stopped; OverlapSpec two replay() calls on one replayer;   *)
(* ParseSpec RDFParser.parseTimeseriesFromFile on hand-written files and   *)
(* on the files NTDataGenerator writes.                                    *)
(***************************************************************************)
EXTENDS Integers, Sequences, FiniteSets, TLC

(* ------------------------- program constants -------------------------- *)
\* waitForPendingEvents(15000)
DrainTimeoutMs == 15000
\* waitForDuration(100) inside waitForPendingEvents
DrainPollMs == 100
\* calculatePercentilesForSample: this.samples.length < 10
MinSamples == 10
\* sloConfig: p95Target, p99Target (ms), burnRateThreshold
P95TargetMs == 1500
P99TargetMs == 2500
BurnRateThreshold == 2
\* RealtimeSSESubscriber.handleEvent: this.metrics.values.length > 1000
MaxMetricValues == 1000
\* the options of the benchmark's subscription: reconnectAttempts, reconnectInterval
ReconnectAttempts == 5
ReconnectIntervalMs == 3000
\* subscribeToMeasurementsPolling: the defaults of pollingInterval (ms) and
\* lookbackWindow (s)
PollingIntervalMs == 1000
LookbackWindowSec == 10
\* KvasirReplayer: the defaults of frequencyHz and maxRetries, the cap on a
\* historical delay (ms), the base and the cap of the retry backoff (ms)
FrequencyHz == 1
MaxRetries == 3
MaxDelayMs == 10000
BackoffBaseMs == 200
BackoffCapMs == 2000
\* and the defaults of bulkBatchSize and delayBetweenBatches (ms)
BulkBatchSize == 1000
DelayBetweenBatchesMs == 0

(* ------------------------------ bounds -------------------------------- *)
\* config.sensorIds
SensorIds == <<"S1", "S2">>
\* config.testDuration (seconds) and config.maxLatencySamples
TestDurationSec == 30
MaxLatencySamples == 2
\* measurement items in the @graph of one SSE change
MaxChangeItems == 2
\* the clock is followed for HorizonSec seconds; a run starts only if it can
\* end within them
HorizonSec == 90
\* latencies handed to the statistics functions: up to MaxValues of
\* LatencyValues, or MinSamples..MaxLong of LongValues
MaxValues == 5
MaxLong == 11
LatencyValues == {10, 20, 30, 40, 50}
LongValues == {10, 20}
\* and, around the SLO targets and the burn-rate threshold, up to
\* MaxSloValues of SloValues
MaxSloValues == 2
SloValues == {1500, 1501, 2500, 2501, 4500, 4501, 7500, 7501}
\* events the subscriber handles
MaxEvents == 3
\* measurements handed to the callback of a subscription handle, and
\* unsubscribe() calls made on it
MaxDeliveries == 2
MaxUnsubscribes == 2
\* the polling client: rows stored in the table, the step of its clock (ms)
\* and how long the clock is followed (ms)
MaxObservations == 2
PollStepMs == 500
PollHorizonMs == 3000
\* the replayer: config.timeAcceleration, the data points of the file (up to
\* MaxFileEvents, stamped from FileStamps), how long an insertBatch call may
\* take and how late a timer may fire (ms; a sleep is taken to end at its
\* deadline, any delay showing as a longer insertBatch call)
TimeAcceleration == 2
MaxFileEvents == 2
FileStamps == {0, 6000, 60000}
InsertDurations == {0, 1500}
TimerLateness == {0}
\* the replayer stopped and called again: replay() and stop() calls made,
\* the data points of the file, the startFrom and endAt configured (NoTime:
\* none), the maxEvents configured (0: none) and the bulkBatchSize
MaxReplays == 2
MaxStops == 1
MaxPoints == 3
TimeWindows == {<<0 - 1, 0 - 1>>, <<6000, 6000>>, <<0, 6000>>}
MaxEventsGiven == {0, 1, 3}
BatchSizes == {1, 2}
\* reconnect timers pending on a subscription at a time, the time during
\* which its connection fails and the times it gives up
MaxTimers == 6
RetryHorizonSec == 3
MaxGiveUps == 1
\* the measurement items of an SSE change
MaxGraph == 2
\* the parser: the lines of a hand-written file, and the instants for which
\* the generator writes a measurement of each sensor
MaxLines == 5
MaxSteps == 2

\* granularity of the observed clock, in ms, and config.eventInterval (ms)
UnitMs == DrainTimeoutMs
EventIntervalMs == UnitMs

\* the first grid instant at or after a duration
Ceil(ms) == ((ms + UnitMs - 1) \div UnitMs) * UnitMs
TestDurationMs == TestDurationSec * 1000
RunMs == Ceil(TestDurationMs) + Ceil(DrainTimeoutMs)
MaxTime == HorizonSec * 1000

\* undefined, for a handle or a sensorId; for a Date; for a timer
Undefined == "undefined"
NoTime == 0 - 1
NoTimer == [armed |-> FALSE, startTime |-> 0, next |-> 0]
\* a measurement without id; the null buildEventId returns
NoId == [fmt |-> "none", sensorId |-> Undefined, ms |-> 0]
Null == [fmt |-> "null", sensorId |-> Undefined, ms |-> 0]
\* no measurement handed to the callback (yet, or by the last step)
NoArrival == [id |-> NoId, sensorId |-> Undefined, timestamp |-> NoTime]
\* no insertBatch call returned in the last step
NoInsert == [key |-> NoId, idx |-> 0, result |-> "none"]

VARIABLES
  now,                   \* Date.now()
  pc,                    \* where runComprehensiveBenchmark stands
  runs,                  \* calls of runComprehensiveBenchmark so far
  benchmarkStartTime,    \* this.benchmarkStartTime
  durationEnd,           \* deadline of waitForDuration(testDuration * 1000)
  endTime,               \* waitForPendingEvents: endTime
  nextPoll,              \* deadline of the pending waitForDuration(100)
  samples,               \* this.samples
  pendingEvents,         \* this.pendingEvents
  eventGenerationTimer,  \* this.eventGenerationTimer (with the closure's startTime)
  sseSubscription,       \* this.sseSubscription
  sse,                   \* closure of subscribeToChangesSSE: isRunning, eventSource,
                         \* reconnectCount, the pending reconnect setTimeout
  tickBodies,            \* timer-tick bodies suspended at await insertBatch
  clearIntervalCalls,    \* clearInterval calls in the current run
  unsubscribeCalls,      \* unsubscribe() calls in the current run
  lastArrival,           \* the measurement last handed to the SSE callback
  lastInsert,            \* the insertBatch call that returned in the last step
  analysis,              \* the analysis runComprehensiveBenchmark returned last
  input,                 \* latencies handed to a statistics function
  out,                   \* what the statistics function returned
  metrics,               \* RealtimeSSESubscriber: this.metrics
  obs,                   \* a subscription handle held by a client: its config, its
                         \* registered callbacks and the calls made on and by it
  delivered,             \* the measurements handed to that client's callback
  poll,                  \* closure of subscribeToMeasurementsPolling: isRunning,
                         \* lastTimestamp, pollTimer, the query in flight
  observations,          \* the rows of the table the polling subscription queries
  replay,                \* KvasirReplayer: where replay() stands
  inserts,               \* the insertBatch calls the replayer has made
  replayer,              \* KvasirReplayer: isRunning, config, stats, the events
                         \* emitted and the calls made on it
  overlap,               \* where a replay() called during another one stands
  parser,                \* RDFParser: the file it reads and the data points it
                         \* has yielded
  change                 \* an SSE change, and the onNewMeasurement calls that
                         \* subscribeToMeasurementsSSE has made for it

\* the state outside the benchmark object and its connection
clientVars == <<obs, delivered, poll, observations>>
replayVars == <<replay, inserts, replayer, overlap, parser, change>>
otherVars == <<input, out, metrics, clientVars, replayVars>>

\* the benchmark object, its connection and its clock
benchVars == <<now, pc, runs, benchmarkStartTime, durationEnd, endTime, nextPoll,
               samples, pendingEvents, eventGenerationTimer, sseSubscription, sse,
               tickBodies, clearIntervalCalls, unsubscribeCalls, lastArrival,
               lastInsert, analysis>>

vars == <<benchVars, otherVars>>

(* ------------------------- correlation keys --------------------------- *)
\* `http://example.org/Measurement_${sensorId}_${generatedAt.getTime()}`
MeasurementId(sensorId, ms) == [fmt |-> "uri", sensorId |-> sensorId, ms |-> ms]

\* buildEventId: `${sensorId}-${timeMs}`, null without a sensorId
BuildEventId(sensorId, timestamp) ==
  IF sensorId = Undefined THEN Null
  ELSE [fmt |-> "dash", sensorId |-> sensorId, ms |-> timestamp]

(* ------------------------ the statistics engine ----------------------- *)
\* JavaScript numbers that need not be finite: a quotient num/den, NaN,
\* Infinity and -Infinity
Num(n, d) == [kind |-> "number", num |-> n, den |-> d]
NaN == [kind |-> "NaN", num |-> 0, den |-> 0]
Infinity == [kind |-> "Infinity", num |-> 0, den |-> 0]
MinusInfinity == [kind |-> "-Infinity", num |-> 0, den |-> 0]

\* a division that throws on a zero divisor
JsDiv_Throws(a, b) ==
  IF b # 0 THEN Num(a, b) ELSE [kind |-> "throws", num |-> 0, den |-> 0]

\* a / b on JavaScript numbers: a zero divisor gives NaN or an infinity
JsDiv(a, b) ==
  IF b # 0 THEN Num(a, b)
  ELSE IF a = 0 THEN NaN
  ELSE IF a > 0 THEN Infinity ELSE MinusInfinity

\* [...values].sort((a, b) => a - b)
Sorted(values) == SortSeq(values, LAMBDA a, b : a < b)

\* percentile without the interpolation: the element at the floor of the index
Percentile_NearestRank(values, p) ==
  IF Len(values) = 0 THEN 0
  ELSE Sorted(values)[(p * (Len(values) - 1)) \div 1000 + 1] * 1000

\* percentile(values, p), with p given in tenths of a percent (999 for 99.9)
\* and the result in thousandths (30000 for 30), so that the interpolation
\* is exact
Percentile(values, p) ==
  IF Len(values) = 0 THEN 0
  ELSE
    LET sorted == Sorted(values)
        n == Len(sorted)
        index == p * (n - 1)
        lower == index \div 1000
        upper == (index + 999) \div 1000
        weight == index % 1000
    IN IF upper >= n THEN sorted[n] * 1000
       ELSE sorted[lower + 1] * (1000 - weight) + sorted[upper + 1] * weight

\* calculatePercentilesForSample, on the latencies of this.samples
CalculatePercentilesForSample(latencies) ==
  IF Len(latencies) < MinSamples
  THEN [p50 |-> 0, p90 |-> 0, p95 |-> 0, p99 |-> 0]
  ELSE
    LET sorted == Sorted(latencies)
        n == Len(sorted)
    IN [p50 |-> sorted[(n * 50) \div 100 + 1],
        p90 |-> sorted[(n * 90) \div 100 + 1],
        p95 |-> sorted[(n * 95) \div 100 + 1],
        p99 |-> sorted[(n * 99) \div 100 + 1]]

\* RealtimeSSESubscriber.percentile(sorted, p), p in tenths of a percent
SubscriberPercentile(sorted, p) ==
  IF Len(sorted) = 0 THEN 0
  ELSE
    LET n == Len(sorted)
        index == (p * n + 999) \div 1000 - 1
        clamped == IF index < 0 THEN 0 ELSE IF index > n - 1 THEN n - 1 ELSE index
    IN sorted[clamped + 1]

Latencies(store) == [i \in 1..Len(store) |-> store[i].totalLatencyMs]

\* analyzeTailLatency (spanBreakdown left out)
AnalyzeTailLatency(store) ==
  LET latencies == Sorted(Latencies(store)) IN
  [p50 |-> Percentile(latencies, 500),
   p90 |-> Percentile(latencies, 900),
   p95 |-> Percentile(latencies, 950),
   p99 |-> Percentile(latencies, 990),
   p999 |-> Percentile(latencies, 999),
   tailLatencyRatio |-> JsDiv(Percentile(latencies, 990), Percentile(latencies, 500))]

\* analyzeMitigationEffectiveness: cacheHitImpact.hitRate, for `hits` samples
\* whose cacheHit flag (Math.random() > 0.1 at registration) is set
AnalyzeMitigationEffectiveness(store, hits) ==
  [hitRate |-> JsDiv(hits, Len(store))]

RECURSIVE Gcd(_, _)
Gcd(a, b) == IF b = 0 THEN a ELSE Gcd(b, a % b)

\* Math.max(a, b) of two quotients with positive divisors
MathMax(a, b) ==
  IF a.kind = "NaN" \/ b.kind = "NaN" THEN NaN
  ELSE LET g == Gcd(a.den, b.den) IN
       IF a.num * (b.den \div g) >= b.num * (a.den \div g) THEN a ELSE b

\* q > n for a quotient q with a positive divisor (false for NaN)
Exceeds(q, n) == q.kind = "number" /\ q.num > n * q.den

\* a run compliant when either target is met
OverallCompliant_Either(p95Compliance, p99Compliance) ==
  p95Compliance \/ p99Compliance

\* overallCompliant: p95Compliance && p99Compliance
OverallCompliant(p95Compliance, p99Compliance) ==
  p95Compliance /\ p99Compliance

\* checkSLOCompliance; targets in ms, percentiles in thousandths
CheckSLOCompliance(store) ==
  LET p95 == Percentile(Latencies(store), 950)
      p99 == Percentile(Latencies(store), 990)
      p95Compliance == p95 <= P95TargetMs * 1000
      p99Compliance == p99 <= P99TargetMs * 1000
      errorBudgetP95 == JsDiv(p95 - P95TargetMs * 1000, P95TargetMs * 1000)
      errorBudgetP99 == JsDiv(p99 - P99TargetMs * 1000, P99TargetMs * 1000)
  IN [p95 |-> [actual |-> p95, compliant |-> p95Compliance,
               errorBudgetBurn |-> errorBudgetP95],
      p99 |-> [actual |-> p99, compliant |-> p99Compliance,
               errorBudgetBurn |-> errorBudgetP99],
      overallCompliant |-> OverallCompliant(p95Compliance, p99Compliance),
      burnRateAlert |-> Exceeds(MathMax(errorBudgetP95, errorBudgetP99),
                                BurnRateThreshold)]

\* performDetailedAnalysis
PerformDetailedAnalysis(store, hits) ==
  [done |-> TRUE,
   tailAnalysis |-> AnalyzeTailLatency(store),
   sloCompliance |-> CheckSLOCompliance(store),
   cacheHitImpact |-> AnalyzeMitigationEffectiveness(store, hits)]

\* this.samples after an analysis that sorts the samples themselves
SamplesAfterAnalysis_SortedInPlace(store) ==
  SortSeq(store, LAMBDA a, b : a.totalLatencyMs < b.totalLatencyMs)

\* this.samples after performDetailedAnalysis: every analysis reads the
\* samples through map, filter, forEach or reduce, and sorts only the arrays
\* these return or a copy ([...values])
SamplesAfterAnalysis(store) == store

\* runComprehensiveBenchmark has not returned
NoAnalysis == [done |-> FALSE]

(* ------------------------ the benchmark object ------------------------ *)
\* The fields a callback reads and writes, gathered so that a handler can be
\* applied several times within one macrotask.
B == [samples |-> samples, pendingEvents |-> pendingEvents,
      eventGenerationTimer |-> eventGenerationTimer,
      sseSubscription |-> sseSubscription, sse |-> sse,
      clearIntervalCalls |-> clearIntervalCalls,
      unsubscribeCalls |-> unsubscribeCalls]

Remove(f, k) == [x \in DOMAIN f \ {k} |-> f[x]]
Put(f, k, v) == [x \in DOMAIN f \cup {k} |-> IF x = k THEN v ELSE f[x]]
EmptyMap == [x \in {} |-> x]

\* stopEventGeneration also unsubscribing
StopEventGeneration_Unsubscribes(b) ==
  [b EXCEPT !.eventGenerationTimer = NoTimer,
            !.clearIntervalCalls = IF b.eventGenerationTimer.armed THEN @ + 1 ELSE @,
            !.sse = IF b.sseSubscription # Undefined
                    THEN [@ EXCEPT !.isRunning = FALSE, !.eventSource = "null"] ELSE @,
            !.sseSubscription = Undefined,
            !.unsubscribeCalls = IF b.sseSubscription # Undefined THEN @ + 1 ELSE @]

\* stopEventGeneration
StopEventGeneration(b) ==
  IF b.eventGenerationTimer.armed
  THEN [b EXCEPT !.eventGenerationTimer = NoTimer,
                 !.clearIntervalCalls = @ + 1]
  ELSE b

\* the closure of subscribeToChangesSSE before connect(): no EventSource, no
\* reconnect timer (reconnectAt is the deadline of the pending setTimeout of
\* onerror that is due first, laterTimers those of the others); opened and
\* gaveUp record that onopen has fired and that onerror has taken its 'Max
\* reconnection attempts reached' branch, attempts counts the connect() calls
\* made by reconnect timers since the connection last opened
NoSse == [isRunning |-> FALSE, eventSource |-> "null", reconnectCount |-> 0,
          reconnectAt |-> NoTime, opened |-> FALSE, gaveUp |-> FALSE,
          laterTimers |-> <<>>, attempts |-> 0]

\* connect() without its isRunning check
Connect_Unconditional(c) == [c EXCEPT !.eventSource = "connecting"]

\* connect(): a new EventSource, unless unsubscribed
Connect(c) == IF c.isRunning THEN [c EXCEPT !.eventSource = "connecting"] ELSE c

\* unsubscribe of the handle returned by subscribeToChangesSSE
Unsubscribe(c) == [c EXCEPT !.isRunning = FALSE, !.eventSource = "null"]

\* stopBenchmark calling unsubscribe() without clearing this.sseSubscription
StopBenchmark_KeepsHandle(b) ==
  LET b1 == StopEventGeneration(b) IN
  IF b1.sseSubscription # Undefined
  THEN [b1 EXCEPT !.sse = Unsubscribe(@),
                  !.unsubscribeCalls = @ + 1]
  ELSE b1

\* stopBenchmark
StopBenchmark(b) ==
  LET b1 == StopEventGeneration(b) IN
  IF b1.sseSubscription # Undefined
  THEN [b1 EXCEPT !.sse = Unsubscribe(@),
                  !.sseSubscription = Undefined,
                  !.unsubscribeCalls = @ + 1]
  ELSE b1

\* the backlog check with its comparison inverted
IsBacklog_Inverted(m, startTime) == startTime # NoTime /\ m.timestamp > startTime

\* the backlog check of the arrival callback
IsBacklog(m, startTime) == startTime # NoTime /\ m.timestamp < startTime

\* the cap check with > for >=
CapReached_Late(n) == n > MaxLatencySamples

\* the cap check of the arrival callback
CapReached(n) == n >= MaxLatencySamples

\* the sample assembled on a hit, with the percentile snapshot of the samples
\* stored before it; key is the id it was correlated by
MakeSample(m, eventId, pending, receivedAt, store) ==
  [sensorId |-> m.sensorId,
   generatedAt |-> pending.generatedAt,
   receivedAt |-> receivedAt,
   totalLatencyMs |-> receivedAt - pending.generatedAt,
   percentiles |-> CalculatePercentilesForSample(Latencies(store)),
   key |-> eventId]

\* a sequence-based lookup: a hit only for the oldest pending event of the sensor
Hit_InOrder(pending, eventId) ==
  /\ eventId \in DOMAIN pending
  /\ \A k \in DOMAIN pending :
       pending[k].sensorId = pending[eventId].sensorId
         => pending[k].generatedAt >= pending[eventId].generatedAt

\* pendingEvents.get(eventId) finds an entry
Hit(pending, eventId) == eventId \in DOMAIN pending

\* the callback falling back, on a miss, on the timestamp of the notification
OnNewMeasurement_SamplesMiss(b, m, startTime, t) ==
  IF IsBacklog(m, startTime) THEN b
  ELSE
    LET eventId == IF m.id # NoId THEN m.id
                   ELSE BuildEventId(m.sensorId, m.timestamp)
        pending == IF Hit(b.pendingEvents, eventId) THEN b.pendingEvents[eventId]
                   ELSE [sensorId |-> m.sensorId, generatedAt |-> m.timestamp]
        b1 == [b EXCEPT !.samples = Append(@, MakeSample(m, eventId, pending, t, b.samples)),
                        !.pendingEvents = Remove(@, eventId)]
    IN IF eventId = Null THEN b
       ELSE IF CapReached(Len(b1.samples)) THEN StopBenchmark(b1) ELSE b1

\* the callback given to subscribeToAllMeasurementsSSE
OnNewMeasurement(b, m, startTime, t) ==
  IF IsBacklog(m, startTime) THEN b
  ELSE
    LET eventId == IF m.id # NoId THEN m.id
                   ELSE BuildEventId(m.sensorId, m.timestamp) IN
    IF eventId = Null THEN b
    ELSE IF ~Hit(b.pendingEvents, eventId) THEN b
    ELSE
      LET pending == b.pendingEvents[eventId]
          b1 == [b EXCEPT !.samples = Append(@, MakeSample(m, eventId, pending, t, b.samples)),
                          !.pendingEvents = Remove(@, eventId)]
      IN IF CapReached(Len(b1.samples)) THEN StopBenchmark(b1) ELSE b1

\* subscribeToMeasurementsSSE: one callback per measurement item of the change,
\* each with the measurement convertChangeToMeasurement finds first
RECURSIVE OnChange(_, _, _, _, _)
OnChange(b, m, items, startTime, t) ==
  IF items = 0 THEN b
  ELSE OnChange(OnNewMeasurement(b, m, startTime, t), m, items - 1, startTime, t)

(* ----------------------------- the state ------------------------------ *)
\* no statistics function has been called
NoOut == [fn |-> "none"]

\* RealtimeSSESubscriber: metrics before any event
NoMetrics == [count |-> 0, sum |-> 0, min |-> Infinity, max |-> MinusInfinity,
              values |-> <<>>]

\* a client that holds no handle: no sensorId asked for, no disconnect
\* callback registered, no call made
NoObs == [subscribed |-> FALSE, sensorId |-> Undefined, disconnectCallbacks |-> 0,
          unsubscribeCalls |-> 0, disconnectCalls |-> 0, closeCalls |-> 0,
          lateTimers |-> 0]

\* the polling closure before subscribeToMeasurementsPolling
NoQuery == [startTime |-> NoTime, endTime |-> NoTime]
NoPoll == [isRunning |-> FALSE, lastTimestamp |-> 0, pollTimer |-> NoTime,
           query |-> NoQuery]

\* the replayer before replay(): no mode entered, no file read; i counts the
\* events handed to processEvent (the batches uploaded), cur is the timestamp
\* of the data point in hand, waited the sleep asked for before it, wake the
\* deadline of the pending sleep, pos the data points read from the file,
\* first..last the positions in the file of the data points in hand
NoReplay == [mode |-> "none", phase |-> "idle", file |-> <<>>, i |-> 0,
             start |-> NoTime, nextEventTime |-> NoTime, lastTimestamp |-> NoTime,
             cur |-> NoTime, waited |-> 0, wake |-> NoTime, attempts |-> 0,
             pos |-> 0, first |-> 0, last |-> 0]

\* initializeStats()
NoStats == [totalRecords |-> 0, processedRecords |-> 0, successfulInserts |-> 0,
            failedInserts |-> 0, totalBatches |-> 0, completedBatches |-> 0]

\* no stop() called; the replayer after construction: no replay() called,
\* no eventFailed emitted
NoStop == [inserts |-> 0, eventNumber |-> 0, phase |-> "none"]
NoReplayer == [isRunning |-> FALSE, config |-> Undefined, stats |-> NoStats,
               eventFailed |-> <<>>, calls |-> 0, rejected |-> 0, stops |-> 0,
               stopped |-> NoStop]

\* the parser before it has read a file
NoParser == [file |-> <<>>, parsed |-> FALSE, yielded |-> <<>>]

\* no change received
NoChange == [timestamp |-> 0, graph |-> <<>>, received |-> FALSE, callbacks |-> <<>>]

\* the benchmark object after construction, nothing started
BenchInit ==
  /\ now = 0
  /\ pc = "NotStarted"
  /\ runs = 0
  /\ benchmarkStartTime = NoTime
  /\ durationEnd = 0
  /\ endTime = 0
  /\ nextPoll = 0
  /\ samples = <<>>
  /\ pendingEvents = EmptyMap
  /\ eventGenerationTimer = NoTimer
  /\ sseSubscription = Undefined
  /\ sse = NoSse
  /\ tickBodies = <<>>
  /\ clearIntervalCalls = 0
  /\ unsubscribeCalls = 0
  /\ lastArrival = NoArrival
  /\ lastInsert = NoInsert
  /\ analysis = NoAnalysis

\* no subscription handle held, nothing delivered, no replay started
ClientInit ==
  /\ obs = NoObs
  /\ delivered = <<>>
  /\ poll = NoPoll
  /\ observations = <<>>
  /\ replay = NoReplay
  /\ inserts = <<>>
  /\ replayer = NoReplayer
  /\ overlap = NoReplay

Init ==
  /\ BenchInit
  /\ ClientInit
  /\ input = <<>>
  /\ out = NoOut
  /\ metrics = NoMetrics
  /\ parser = NoParser
  /\ change = NoChange

SetB(b) ==
  /\ samples' = b.samples
  /\ pendingEvents' = b.pendingEvents
  /\ eventGenerationTimer' = b.eventGenerationTimer
  /\ sseSubscription' = b.sseSubscription
  /\ sse' = b.sse
  /\ clearIntervalCalls' = b.clearIntervalCalls
  /\ unsubscribeCalls' = b.unsubscribeCalls

(* ------------------------- the orchestrator --------------------------- *)
\* runComprehensiveBenchmark up to its await of waitForDuration:
\* startDetailedSSESubscription and startDetailedEventGeneration included
Start ==
  /\ pc \in {"NotStarted", "Complete"}
  /\ now + RunMs <= MaxTime
  /\ runs' = runs + 1
  /\ benchmarkStartTime' = now
  /\ samples' = <<>>
  /\ sseSubscription' = "handle"
  /\ sse' = Connect([NoSse EXCEPT !.isRunning = TRUE])
  /\ eventGenerationTimer' =
       [armed |-> TRUE, startTime |-> now, next |-> now + EventIntervalMs]
  /\ durationEnd' = now + TestDurationMs
  /\ pc' = "waitForDuration"
  /\ clearIntervalCalls' = 0
  /\ unsubscribeCalls' = 0
  /\ UNCHANGED otherVars
  /\ lastArrival' = NoArrival
  /\ lastInsert' = NoInsert
  /\ analysis' = NoAnalysis
  /\ UNCHANGED <<now, endTime, nextPoll, pendingEvents, tickBodies>>

\* the loop condition without its timeout
KeepWaiting_NoTimeout(pending, t, deadline) == Cardinality(DOMAIN pending) > 0

\* the loop condition of waitForPendingEvents
KeepWaiting(pending, t, deadline) ==
  Cardinality(DOMAIN pending) > 0 /\ t < deadline

\* runComprehensiveBenchmark after waitForPendingEvents: stopBenchmark,
\* performDetailedAnalysis, return
Finish ==
  /\ SetB([StopBenchmark(B) EXCEPT !.samples = SamplesAfterAnalysis(@)])
  /\ \E hits \in 0..Len(samples) : analysis' = PerformDetailedAnalysis(samples, hits)
  /\ pc' = "Complete"
  /\ UNCHANGED nextPoll

\* waitForDuration(testDuration * 1000) resolves; waitForPendingEvents starts
DurationElapsed ==
  /\ pc = "waitForDuration"
  /\ now >= durationEnd
  /\ endTime' = now + DrainTimeoutMs
  /\ IF KeepWaiting(pendingEvents, now, now + DrainTimeoutMs)
     THEN /\ pc' = "waitForPendingEvents"
          /\ nextPoll' = now + DrainPollMs
          /\ UNCHANGED <<samples, pendingEvents, eventGenerationTimer, analysis,
                         sseSubscription, sse, clearIntervalCalls, unsubscribeCalls>>
     ELSE Finish
  /\ UNCHANGED otherVars
  /\ lastArrival' = NoArrival
  /\ lastInsert' = NoInsert
  /\ UNCHANGED <<now, runs, benchmarkStartTime, durationEnd, tickBodies>>

\* waitForDuration(100) resolves inside waitForPendingEvents
DrainPoll ==
  /\ pc = "waitForPendingEvents"
  /\ now >= nextPoll
  /\ IF KeepWaiting(pendingEvents, now, endTime)
     THEN /\ pc' = "waitForPendingEvents"
          /\ nextPoll' = now + DrainPollMs
          /\ UNCHANGED <<samples, pendingEvents, eventGenerationTimer, analysis,
                         sseSubscription, sse, clearIntervalCalls, unsubscribeCalls>>
     ELSE Finish
  /\ UNCHANGED otherVars
  /\ lastArrival' = NoArrival
  /\ lastInsert' = NoInsert
  /\ UNCHANGED <<now, runs, benchmarkStartTime, durationEnd, endTime, tickBodies>>

(* --------------------------- the generator ---------------------------- *)
\* the duration check at the head of a timer tick
DurationOver(elapsed) == elapsed >= TestDurationMs

\* a tick body entering the loop for sensor idx: the event is built and
\* insertBatch is called
BodyAt(idx, t) == [idx |-> idx, generatedAt |-> t]
BodyKey(body) == MeasurementId(SensorIds[body.idx], body.generatedAt)

\* the setInterval callback up to its first await
Tick ==
  /\ eventGenerationTimer.armed
  /\ now >= eventGenerationTimer.next
  /\ IF DurationOver(now - eventGenerationTimer.startTime)
     THEN /\ SetB(StopEventGeneration(B))
          /\ UNCHANGED tickBodies
     ELSE /\ eventGenerationTimer' =
               [eventGenerationTimer EXCEPT !.next = now + EventIntervalMs]
          /\ tickBodies' = Append(tickBodies, BodyAt(1, now))
          /\ UNCHANGED <<samples, pendingEvents, sseSubscription, sse,
                         clearIntervalCalls, unsubscribeCalls>>
  /\ UNCHANGED otherVars
  /\ lastArrival' = NoArrival
  /\ lastInsert' = NoInsert
  /\ UNCHANGED <<analysis, now, pc, runs, benchmarkStartTime, durationEnd, endTime, nextPoll>>

RemoveAt(s, i) == SubSeq(s, 1, i - 1) \o SubSeq(s, i + 1, Len(s))

\* registering whatever the outcome of insertBatch
Registers_Always(result) == result \in {"success", "failure", "throws"}

\* what the tick body does with the outcome of insertBatch
Registers(result) == result = "success"

\* await insertBatch returns (success, success = false, or it throws) in a
\* suspended tick body; the body goes on to its next sensor
InsertReturn(i, result) ==
  /\ i \in DOMAIN tickBodies
  /\ LET body == tickBodies[i]
         key == BodyKey(body)
     IN /\ pendingEvents' =
             IF Registers(result)
             THEN Put(pendingEvents, key,
                      [sensorId |-> SensorIds[body.idx], generatedAt |-> body.generatedAt])
             ELSE pendingEvents
        /\ IF body.idx < Len(SensorIds)
           THEN tickBodies' = [tickBodies EXCEPT ![i] = BodyAt(body.idx + 1, now)]
           ELSE tickBodies' = RemoveAt(tickBodies, i)
  /\ UNCHANGED otherVars
  /\ lastArrival' = NoArrival
  /\ lastInsert' = [key |-> BodyKey(tickBodies[i]), idx |-> tickBodies[i].idx,
                    result |-> result]
  /\ UNCHANGED <<analysis, now, pc, runs, benchmarkStartTime, durationEnd, endTime, nextPoll,
                 samples, eventGenerationTimer, sseSubscription, sse,
                 clearIntervalCalls, unsubscribeCalls>>

(* --------------------------- the correlator --------------------------- *)
\* The ids the external store can notify about: those of events submitted
\* and still awaited (a body suspended at insertBatch), registered, or already
\* sampled.  A notification of any other id misses and changes nothing.
Submitted ==
  { BodyKey(tickBodies[i]) : i \in 1..Len(tickBodies) }
  \cup DOMAIN pendingEvents
  \cup { samples[i].key : i \in 1..Len(samples) }

\* what the stream can deliver for a submitted event: a measurement carrying
\* the event's sensorId and timestamp, with its id or without
NotificationsOf(k) ==
  { [id |-> i, sensorId |-> k.sensorId, timestamp |-> k.ms] : i \in {k, NoId} }

Notifications == UNION { NotificationsOf(k) : k \in Submitted }

\* eventSource.onmessage with a change of `items` measurement items
Arrival(m, items) ==
  /\ sse.eventSource = "open"
  /\ SetB(OnChange(B, m, items, benchmarkStartTime, now))
  /\ UNCHANGED otherVars
  /\ lastArrival' = m
  /\ lastInsert' = NoInsert
  /\ UNCHANGED <<analysis, now, pc, runs, benchmarkStartTime, durationEnd, endTime, nextPoll,
                 tickBodies>>

(* ---------------------- the statistics functions ---------------------- *)
\* the percentiles asked for, in tenths of a percent
Ps == {0, 500, 900, 950, 990, 999, 1000}

Inputs ==
  UNION {[1..n -> LatencyValues] : n \in 0..MaxValues}
  \cup UNION {[1..n -> LongValues] : n \in MinSamples..MaxLong}
  \cup UNION {[1..n -> SloValues] : n \in 1..MaxSloValues}

StatsInit ==
  /\ BenchInit
  /\ ClientInit
  /\ input \in Inputs
  /\ out = NoOut
  /\ metrics = NoMetrics
  /\ parser = NoParser
  /\ change = NoChange

\* this.percentile(input, p)
CallPercentile(p) ==
  /\ out = NoOut
  /\ out' = [fn |-> "percentile", p |-> p, value |-> Percentile(input, p)]
  /\ UNCHANGED <<benchVars, input, metrics, clientVars, replayVars>>

\* calculatePercentilesForSample() with samples of the latencies input
CallCalculatePercentilesForSample ==
  /\ out = NoOut
  /\ out' = [fn |-> "calculatePercentilesForSample",
             value |-> CalculatePercentilesForSample(input)]
  /\ UNCHANGED <<benchVars, input, metrics, clientVars, replayVars>>

\* printReport: this.percentile(sorted, p) of RealtimeSSESubscriber
CallSubscriberPercentile(p) ==
  /\ out = NoOut
  /\ out' = [fn |-> "subscriberPercentile", p |-> p,
             value |-> SubscriberPercentile(Sorted(input), p)]
  /\ UNCHANGED <<benchVars, input, metrics, clientVars, replayVars>>

\* checkSLOCompliance() with samples of the latencies input
CallCheckSLOCompliance ==
  /\ out = NoOut
  /\ out' = [fn |-> "checkSLOCompliance",
             value |-> CheckSLOCompliance(
                         [i \in 1..Len(input) |-> [totalLatencyMs |-> input[i]]])]
  /\ UNCHANGED <<benchVars, input, metrics, clientVars, replayVars>>

StatsNext ==
  \/ \E p \in Ps : CallPercentile(p)
  \/ CallCalculatePercentilesForSample
  \/ \E p \in Ps : CallSubscriberPercentile(p)
  \/ CallCheckSLOCompliance

StatsSpec == StatsInit /\ [][StatsNext]_vars

(* --------------------------- the subscriber --------------------------- *)
\* config.sensorFilter of the subscriber
SensorFilter == SensorIds[1]

\* Math.min and Math.max of a metric and a latency
JsMin(a, x) == IF a.kind = "Infinity" \/ x < a.num THEN Num(x, 1) ELSE a
JsMax(a, x) == IF a.kind = "-Infinity" \/ x > a.num THEN Num(x, 1) ELSE a

\* the latency handleEvent records
SubscriberLatency(receivedAt, generatedAt) == receivedAt - generatedAt

\* RealtimeSSESubscriber.handleEvent
HandleEvent(m) ==
  /\ metrics.count < MaxEvents
  /\ IF SensorFilter # Undefined /\ m.sensorId # SensorFilter
     THEN UNCHANGED metrics
     ELSE LET latencyMs == SubscriberLatency(now, m.timestamp)
              pushed == Append(metrics.values, latencyMs)
          IN metrics' = [count |-> metrics.count + 1,
                         sum |-> metrics.sum + latencyMs,
                         min |-> JsMin(metrics.min, latencyMs),
                         max |-> JsMax(metrics.max, latencyMs),
                         values |-> IF Len(pushed) > MaxMetricValues
                                    THEN Tail(pushed) ELSE pushed]
  /\ lastArrival' = [id |-> NoId, sensorId |-> m.sensorId, timestamp |-> m.timestamp]
  /\ UNCHANGED <<now, pc, runs, benchmarkStartTime, durationEnd, endTime, nextPoll,
                 samples, pendingEvents, eventGenerationTimer, sseSubscription, sse,
                 tickBodies, clearIntervalCalls, unsubscribeCalls, lastInsert,
                 analysis, input, out, clientVars, replayVars>>

\* the subscriber's clock moves on
SubscriberAdvance ==
  /\ now + UnitMs <= MaxTime
  /\ now' = now + UnitMs
  /\ lastArrival' = NoArrival
  /\ UNCHANGED <<pc, runs, benchmarkStartTime, durationEnd, endTime, nextPoll,
                 samples, pendingEvents, eventGenerationTimer, sseSubscription, sse,
                 tickBodies, clearIntervalCalls, unsubscribeCalls, lastInsert,
                 analysis, otherVars>>

\* the generation timestamps a producer may stamp, by its own clock
Stamps == {k * UnitMs : k \in 0..(MaxTime \div UnitMs)}

\* The subscriber handling the events of a producer on another clock.
SubscriberNext ==
  \/ \E sid \in {SensorIds[i] : i \in 1..Len(SensorIds)}, ts \in Stamps :
       HandleEvent([sensorId |-> sid, timestamp |-> ts])
  \/ SubscriberAdvance

SubscriberSpec == Init /\ [][SubscriberNext]_vars

(* -------------------------- the connection ---------------------------- *)
\* eventSource.onopen
SseOpen ==
  /\ sse.eventSource = "connecting"
  /\ sse' = [sse EXCEPT !.eventSource = "open", !.reconnectCount = 0,
                        !.opened = TRUE, !.attempts = 0]
  /\ UNCHANGED otherVars
  /\ lastArrival' = NoArrival
  /\ lastInsert' = NoInsert
  /\ UNCHANGED <<analysis, now, pc, runs, benchmarkStartTime, durationEnd, endTime, nextPoll,
                 samples, pendingEvents, eventGenerationTimer, sseSubscription,
                 tickBodies, clearIntervalCalls, unsubscribeCalls>>

\* whether onerror schedules another connect()
MayReconnect(count) == count < ReconnectAttempts

\* the setTimeout of onerror: one more pending reconnect timer
SetTimeout(c, deadline) ==
  IF c.reconnectAt = NoTime THEN [c EXCEPT !.reconnectAt = deadline]
  ELSE [c EXCEPT !.laterTimers = Append(@, deadline)]

\* eventSource.onerror: the connection could not be made, or was lost
SseError ==
  /\ sse.eventSource \in {"connecting", "open"}
  /\ MayReconnect(sse.reconnectCount) => Len(sse.laterTimers) + 1 < MaxTimers
  /\ sse' = IF MayReconnect(sse.reconnectCount)
            THEN SetTimeout([sse EXCEPT !.eventSource = "error",
                                        !.reconnectCount = @ + 1],
                            now + ReconnectIntervalMs)
            ELSE [sse EXCEPT !.eventSource = "error", !.gaveUp = TRUE]
  /\ obs' = IF MayReconnect(sse.reconnectCount) THEN obs
            ELSE [obs EXCEPT !.disconnectCalls = @ + obs.disconnectCallbacks]
  /\ UNCHANGED <<input, out, metrics, delivered, poll, observations, replayVars>>
  /\ lastArrival' = NoArrival
  /\ lastInsert' = NoInsert
  /\ UNCHANGED <<analysis, now, pc, runs, benchmarkStartTime, durationEnd, endTime, nextPoll,
                 samples, pendingEvents, eventGenerationTimer, sseSubscription,
                 tickBodies, clearIntervalCalls, unsubscribeCalls>>

\* the setTimeout callback of onerror: close the old source and connect()
Reconnect ==
  /\ sse.reconnectAt # NoTime
  /\ now >= sse.reconnectAt
  /\ sse' = Connect([sse EXCEPT
                       !.reconnectAt = IF sse.laterTimers = <<>> THEN NoTime
                                       ELSE Head(sse.laterTimers),
                       !.laterTimers = IF @ = <<>> THEN @ ELSE Tail(@),
                       !.attempts = IF sse.isRunning THEN @ + 1 ELSE @,
                       !.eventSource = "null"])
  /\ obs' = [obs EXCEPT !.lateTimers = IF sse.isRunning THEN @ ELSE @ + 1]
  /\ UNCHANGED <<input, out, metrics, delivered, poll, observations, replayVars>>
  /\ lastArrival' = NoArrival
  /\ lastInsert' = NoInsert
  /\ UNCHANGED <<analysis, now, pc, runs, benchmarkStartTime, durationEnd, endTime, nextPoll,
                 samples, pendingEvents, eventGenerationTimer, sseSubscription,
                 tickBodies, clearIntervalCalls, unsubscribeCalls>>

\* the EventSource, left open by onerror until the reconnect timer closes
\* it, connects again by itself after a network error
SseRetry ==
  /\ sse.eventSource = "error"
  /\ sse' = [sse EXCEPT !.eventSource = "connecting"]
  /\ UNCHANGED otherVars
  /\ lastArrival' = NoArrival
  /\ lastInsert' = NoInsert
  /\ UNCHANGED <<analysis, now, pc, runs, benchmarkStartTime, durationEnd, endTime, nextPoll,
                 samples, pendingEvents, eventGenerationTimer, sseSubscription,
                 tickBodies, clearIntervalCalls, unsubscribeCalls>>

(* ------------------------------- time --------------------------------- *)
\* the next instant observed: the next grid instant, or the deadline of the
\* reconnect timer if that comes first
NextInstant ==
  LET grid == (now \div UnitMs + 1) * UnitMs IN
  IF sse.reconnectAt # NoTime /\ sse.reconnectAt < grid THEN sse.reconnectAt ELSE grid

\* the clock moves on when no timer is due
Advance ==
  /\ NextInstant <= MaxTime
  /\ pc # "NotStarted"
  /\ pc = "Complete" => NextInstant + RunMs <= MaxTime
  /\ sse.reconnectAt # NoTime => now < sse.reconnectAt
  /\ pc = "waitForDuration" => now < durationEnd
  /\ pc = "waitForPendingEvents" => now < nextPoll
  /\ eventGenerationTimer.armed => now < eventGenerationTimer.next
  /\ now' = NextInstant
  /\ UNCHANGED otherVars
  /\ lastArrival' = NoArrival
  /\ lastInsert' = NoInsert
  /\ UNCHANGED <<analysis, pc, runs, benchmarkStartTime, durationEnd, endTime, nextPoll,
                 samples, pendingEvents, eventGenerationTimer, sseSubscription, sse,
                 tickBodies, clearIntervalCalls, unsubscribeCalls>>

Next ==
  \/ Start
  \/ DurationElapsed
  \/ DrainPoll
  \/ Tick
  \/ \E i \in DOMAIN tickBodies, r \in {"success", "failure", "throws"} : InsertReturn(i, r)
  \/ \E m \in Notifications, items \in 1..MaxChangeItems : Arrival(m, items)
  \/ SseOpen
  \/ Advance

Spec == Init /\ [][Next]_vars

\* The clock moves on and the event loop runs the callback of a due timer.
\* Nothing is assumed of the network: a request may never return and a
\* notification may never arrive.
FairSpec ==
  /\ Spec
  /\ WF_vars(Advance)
  /\ WF_vars(DurationElapsed)
  /\ WF_vars(DrainPoll)
  /\ WF_vars(Tick)

\* The benchmark against a store that cannot be reached: the SSE connection
\* may fail and be retried, requests to the store do not return and no
\* notification arrives (so nothing is ever pending and the drain has nothing
\* to wait for).
ConnNext ==
  \/ Start
  \/ DurationElapsed
  \/ Tick
  \/ SseOpen
  \/ SseError
  \/ Reconnect
  \/ Advance

ConnSpec == Init /\ [][ConnNext]_vars

(* ------------------- a client of the SSE subscription ----------------- *)
\* subscribeToMeasurementsSSE(callback, {sensorId, ...}): the sensorId is taken
\* out of the config, subscribeToChangesSSE connects and returns the handle;
\* the client registers a disconnect callback on it (as the subscribe-sse
\* command does)
SubscribeToMeasurementsSSE ==
  /\ ~obs.subscribed
  /\ pc = "NotStarted"
  /\ sse' = Connect([NoSse EXCEPT !.isRunning = TRUE])
  /\ obs' = [NoObs EXCEPT !.subscribed = TRUE, !.sensorId = SensorFilter,
                          !.disconnectCallbacks = 1]
  /\ UNCHANGED <<input, out, metrics, delivered, poll, observations, replayVars>>
  /\ UNCHANGED <<now, pc, runs, benchmarkStartTime, durationEnd, endTime, nextPoll,
                 samples, pendingEvents, eventGenerationTimer, sseSubscription,
                 tickBodies, clearIntervalCalls, unsubscribeCalls, lastArrival,
                 lastInsert, analysis>>

\* the onChange callback of subscribeToMeasurementsSSE: one onNewMeasurement
\* call per measurement item of the change, whatever sensorId was asked for
MeasurementsOfChange(m, items, sensorId) == [i \in 1..items |-> m]

\* eventSource.onmessage on the client's subscription
SseMessage(m, items) ==
  /\ obs.subscribed
  /\ sse.eventSource = "open"
  /\ Len(delivered) + items <= MaxDeliveries
  /\ delivered' = delivered \o MeasurementsOfChange(m, items, obs.sensorId)
  /\ UNCHANGED <<input, out, metrics, obs, poll, observations, replayVars>>
  /\ UNCHANGED benchVars

\* handle.unsubscribe() of subscribeToChangesSSE
SseUnsubscribe ==
  /\ obs.subscribed
  /\ obs.unsubscribeCalls < MaxUnsubscribes
  /\ sse' = Unsubscribe(sse)
  /\ obs' = [obs EXCEPT !.unsubscribeCalls = @ + 1,
                        !.closeCalls = IF sse.eventSource # "null" THEN @ + 1 ELSE @,
                        !.disconnectCalls = @ + obs.disconnectCallbacks]
  /\ UNCHANGED <<input, out, metrics, delivered, poll, observations, replayVars>>
  /\ UNCHANGED <<now, pc, runs, benchmarkStartTime, durationEnd, endTime, nextPoll,
                 samples, pendingEvents, eventGenerationTimer, sseSubscription,
                 tickBodies, clearIntervalCalls, unsubscribeCalls, lastArrival,
                 lastInsert, analysis>>

\* the client's clock moves on when no timer is due
SseAdvance ==
  /\ obs.subscribed
  /\ NextInstant <= MaxTime
  /\ sse.reconnectAt # NoTime => now < sse.reconnectAt
  /\ now' = NextInstant
  /\ UNCHANGED otherVars
  /\ UNCHANGED <<pc, runs, benchmarkStartTime, durationEnd, endTime, nextPoll,
                 samples, pendingEvents, eventGenerationTimer, sseSubscription, sse,
                 tickBodies, clearIntervalCalls, unsubscribeCalls, lastArrival,
                 lastInsert, analysis>>

\* what the change stream can carry: a measurement of any sensor (of the
\* measurement only the sensorId matters to the subscription)
Changes == { [sensorId |-> SensorIds[i]] : i \in 1..Len(SensorIds) }

\* A client holding a handle of subscribeToMeasurementsSSE, on a connection
\* that may fail at any time.
SseNext ==
  \/ SubscribeToMeasurementsSSE
  \/ SseOpen
  \/ SseError
  \/ Reconnect
  \/ \E m \in Changes, items \in 1..MaxChangeItems : SseMessage(m, items)
  \/ SseUnsubscribe
  \/ SseAdvance

SseSpec == Init /\ [][SseNext]_vars

\* The same client (it does not unsubscribe) on a connection whose
\* EventSource, after an error, may also connect again by itself before the
\* reconnect timer replaces it.
RetryNext ==
  \/ SubscribeToMeasurementsSSE
  \/ SseOpen
  \/ (now < RetryHorizonSec * 1000 /\ obs.disconnectCalls < MaxGiveUps /\ SseError)
  \/ SseRetry
  \/ Reconnect
  \/ SseAdvance

RetrySpec == Init /\ [][RetryNext]_vars

(* ----------------- a client of the polling subscription --------------- *)
\* toISOString().slice(0, 19): a Date cut to its whole second
ToSecond(ms) == (ms \div 1000) * 1000

\* queryTimeRange: the rows with timestamp >= startTime and <= endTime, both
\* written to the second, ordered by timestamp
QueryTimeRange(rows, startTime, endOfRange) ==
  SortSeq(SelectSeq(rows, LAMBDA r : /\ r.timestamp >= ToSecond(startTime)
                                    /\ r.timestamp <= ToSecond(endOfRange)),
          LAMBDA a, b : a.timestamp < b.timestamp)

\* the sensor id read out of a measurement id Measurement_<sensor>_<n>
SensorIdFromData(id) == id.sensorId

\* the loop of pollForNewData over the parsed measurements: the sensorId
\* filter, the callback, the update of lastTimestamp; c is the pair of what
\* has been delivered and lastTimestamp
RECURSIVE ProcessMeasurements(_, _, _)
ProcessMeasurements(c, rows, sensorId) ==
  IF rows = <<>> THEN c
  ELSE
    LET r == Head(rows) IN
    IF sensorId # Undefined /\ SensorIdFromData(r.id) # sensorId
    THEN ProcessMeasurements(c, Tail(rows), sensorId)
    ELSE ProcessMeasurements(
           [delivered |-> Append(c.delivered,
                                 [id |-> r.id, sensorId |-> SensorIdFromData(r.id),
                                  timestamp |-> r.timestamp]),
            lastTimestamp |-> IF r.timestamp > c.lastTimestamp
                              THEN r.timestamp ELSE c.lastTimestamp],
           Tail(rows), sensorId)

\* subscribeToMeasurementsPolling(callback, {sensorId}) with the default
\* interval and lookback; the client registers a disconnect callback
SubscribeToMeasurementsPolling ==
  /\ ~obs.subscribed
  /\ pc = "NotStarted"
  /\ poll' = [isRunning |-> TRUE,
              lastTimestamp |-> now - LookbackWindowSec * 1000,
              pollTimer |-> now,
              query |-> NoQuery]
  /\ obs' = [NoObs EXCEPT !.subscribed = TRUE, !.sensorId = SensorFilter,
                          !.disconnectCallbacks = 1]
  /\ UNCHANGED <<input, out, metrics, delivered, observations, replayVars>>
  /\ UNCHANGED benchVars

\* pollForNewData up to its await of queryTimeRange
PollForNewData ==
  /\ poll.pollTimer # NoTime
  /\ now >= poll.pollTimer
  /\ poll' = IF ~poll.isRunning THEN [poll EXCEPT !.pollTimer = NoTime]
             ELSE [poll EXCEPT !.pollTimer = NoTime,
                               !.query = [startTime |-> poll.lastTimestamp + 1,
                                          endTime |-> now]]
  /\ UNCHANGED <<input, out, metrics, obs, delivered, observations, replayVars>>
  /\ UNCHANGED benchVars

\* queryTimeRange returns (with the rows, or success = false) and
\* pollForNewData runs to its end
PollReturn(success) ==
  /\ poll.query # NoQuery
  /\ LET rows == IF success
                 THEN QueryTimeRange(observations, poll.query.startTime,
                                     poll.query.endTime)
                 ELSE <<>>
         c == ProcessMeasurements([delivered |-> delivered,
                                   lastTimestamp |-> poll.lastTimestamp],
                                  rows, obs.sensorId)
     IN /\ Len(c.delivered) <= MaxDeliveries
        /\ delivered' = c.delivered
        /\ poll' = [poll EXCEPT !.lastTimestamp = c.lastTimestamp,
                                !.query = NoQuery,
                                !.pollTimer = IF poll.isRunning
                                              THEN now + PollingIntervalMs
                                              ELSE @]
  /\ UNCHANGED <<input, out, metrics, obs, observations, replayVars>>
  /\ UNCHANGED benchVars

\* handle.unsubscribe() of subscribeToMeasurementsPolling
PollUnsubscribe ==
  /\ obs.subscribed
  /\ obs.unsubscribeCalls < MaxUnsubscribes
  /\ poll' = [poll EXCEPT !.isRunning = FALSE, !.pollTimer = NoTime]
  /\ obs' = [obs EXCEPT !.unsubscribeCalls = @ + 1,
                        !.disconnectCalls = @ + obs.disconnectCallbacks]
  /\ UNCHANGED <<input, out, metrics, delivered, observations, replayVars>>
  /\ UNCHANGED benchVars

\* a producer stores a measurement of some sensor, stamped now
InsertObservation(sensorId) ==
  /\ Len(observations) < MaxObservations
  /\ observations' = Append(observations,
                            [id |-> MeasurementId(sensorId, Len(observations) + 1),
                             timestamp |-> now])
  /\ UNCHANGED <<input, out, metrics, obs, delivered, poll, replayVars>>
  /\ UNCHANGED benchVars

\* the client's clock moves on when no poll is due
PollAdvance ==
  /\ now + PollStepMs <= PollHorizonMs
  /\ poll.pollTimer # NoTime => now < poll.pollTimer
  /\ now' = now + PollStepMs
  /\ UNCHANGED otherVars
  /\ UNCHANGED <<pc, runs, benchmarkStartTime, durationEnd, endTime, nextPoll,
                 samples, pendingEvents, eventGenerationTimer, sseSubscription, sse,
                 tickBodies, clearIntervalCalls, unsubscribeCalls, lastArrival,
                 lastInsert, analysis>>

\* A client holding a handle of subscribeToMeasurementsPolling, a producer
\* storing measurements meanwhile.
PollNext ==
  \/ SubscribeToMeasurementsPolling
  \/ PollForNewData
  \/ \E success \in BOOLEAN : PollReturn(success)
  \/ PollUnsubscribe
  \/ \E i \in 1..Len(SensorIds) : InsertObservation(SensorIds[i])
  \/ PollAdvance

PollSpec == Init /\ [][PollNext]_vars

(* --------------------------- the replayer ----------------------------- *)
\* 1000 / frequencyHz
IntervalMs == 1000 \div FrequencyHz

\* the timestamp a streamed event carries in the file's place
RealtimeTimestamp_FromFile(dataPoint, nextEventTime) == dataPoint

\* realtimeDataPoint: { ...dataPoint, timestamp: new Date(nextEventTime) }
RealtimeTimestamp(dataPoint, nextEventTime) == nextEventTime

\* Math.min(delayMs, 10000)
HistoricalDelay(delayMs) == IF delayMs < MaxDelayMs THEN delayMs ELSE MaxDelayMs

\* Math.min(200 * Math.pow(2, attempts - 1), 2000)
BackoffMs(attempts) ==
  LET b == BackoffBaseMs * 2 ^ (attempts - 1) IN
  IF b < BackoffCapMs THEN b ELSE BackoffCapMs

\* the replay() call a step is about: the first one, or one made while the
\* first has not returned
Act(k) == IF k = 1 THEN replay ELSE overlap

\* a replay() call that has neither returned nor thrown
InProgress(r) == r.phase \notin {"idle", "done", "failed"}

\* a replay() call suspended in a sleep
Sleeping(r) == r.phase \in {"sleep", "backoff", "delay"}

\* no timer of the other replay() call is due before time t
NoEarlierTimer(k, t) == LET other == Act(3 - k) IN Sleeping(other) => other.wake >= t

\* Math.min(config.maxEvents || dataPoints.length, dataPoints.length)
EventsToProcess(config, length) ==
  LET maxEvents == IF config.maxEvents # 0 THEN config.maxEvents ELSE length IN
  IF maxEvents < length THEN maxEvents ELSE length

\* the whole batches of the file
TotalBatches_Floor(config, length) == length \div config.bulkBatchSize

\* Math.ceil(dataPoints.length / batchSize)
TotalBatches(config, length) ==
  (length + config.bulkBatchSize - 1) \div config.bulkBatchSize

\* Math.min((i + 1) * batchSize, dataPoints.length)
BatchEnd(config, length, i) ==
  LET e == (i + 1) * config.bulkBatchSize IN IF e < length THEN e ELSE length

\* the time filter of the historical loop, from the data point after position
\* pos: `continue` on a timestamp before startFrom, `break` on one after
\* endAt; the position of the data point to process, or 0 when the loop ends,
\* with the number of data points read
RECURSIVE NextPoint(_, _, _)
NextPoint(config, file, pos) ==
  IF pos >= Len(file) THEN [at |-> 0, read |-> Len(file)]
  ELSE LET timestamp == file[pos + 1] IN
       IF config.startFrom # NoTime /\ timestamp < config.startFrom
       THEN NextPoint(config, file, pos + 1)
       ELSE IF config.endAt # NoTime /\ timestamp > config.endAt
            THEN [at |-> 0, read |-> pos + 1]
            ELSE [at |-> pos + 1, read |-> pos + 1]

\* the head of the loop of replayWithFrequency, replayWithHistoricalTiming
\* and replayWithBulkUpload at time t, on the replayer o: the loop ends, or
\* the next event (batch) is taken in hand and processEvent (insertBatch) is
\* called, after a sleep where the mode asks for one
LoopHead(o, r, t) ==
  IF r.mode = "realtime-frequency"
  THEN IF r.i < EventsToProcess(o.config, Len(r.file)) /\ o.isRunning
       THEN LET p == (r.i % Len(r.file)) + 1
                waitTime == r.nextEventTime - t
                r1 == [r EXCEPT !.cur = RealtimeTimestamp(r.file[p], r.nextEventTime),
                                !.first = p, !.last = p, !.attempts = 0]
            IN IF waitTime > 0
               THEN [r1 EXCEPT !.phase = "sleep", !.waited = waitTime,
                               !.wake = t + waitTime]
               ELSE [r1 EXCEPT !.phase = "insert", !.waited = 0]
       ELSE [r EXCEPT !.phase = "done"]
  ELSE IF r.mode = "bulk-upload"
  THEN IF r.i < TotalBatches(o.config, Len(r.file)) /\ o.isRunning
       THEN [r EXCEPT !.phase = "batch", !.first = r.i * o.config.bulkBatchSize + 1,
                      !.last = BatchEnd(o.config, Len(r.file), r.i),
                      !.cur = NoTime, !.attempts = 0, !.waited = 0]
       ELSE [r EXCEPT !.phase = "done"]
  ELSE LET n == NextPoint(o.config, r.file, r.pos) IN
       IF n.at = 0 THEN [r EXCEPT !.phase = "done", !.pos = n.read]
       ELSE
         LET dataPoint == r.file[n.at]
             delayMs == IF r.lastTimestamp # NoTime
                        THEN (dataPoint - r.lastTimestamp) \div TimeAcceleration
                        ELSE 0
             r1 == [r EXCEPT !.cur = dataPoint, !.pos = n.read, !.first = n.at,
                             !.last = n.at, !.attempts = 0]
         IN IF delayMs > 0
            THEN [r1 EXCEPT !.phase = "sleep", !.waited = HistoricalDelay(delayMs),
                            !.wake = t + HistoricalDelay(delayMs)]
            ELSE [r1 EXCEPT !.phase = "insert", !.waited = 0]

\* the insertBatch call made at time t, if r stands at one: the event (batch)
\* number, the timestamp handed over, the positions in the file of the data
\* points submitted
Inserted(r, t) ==
  IF r.phase \in {"insert", "batch"}
  THEN Append(inserts, [eventNumber |-> r.i, timestamp |-> r.cur, at |-> t,
                        attempt |-> r.attempts + 1, first |-> r.first,
                        last |-> r.last])
  ELSE inserts

\* processEvent has returned at time t (the event inserted, or given up):
\* the rest of the loop body, and the head of the next iteration
AfterEvent(o, r, t) ==
  LoopHead(o, [r EXCEPT !.i = @ + 1,
                        !.nextEventTime = IF r.mode = "realtime-frequency"
                                          THEN @ + IntervalMs ELSE @,
                        !.lastTimestamp = IF r.mode = "historical" THEN r.cur ELSE @],
           t)

\* replay(): finally { this.isRunning = false }, once the call has returned
\* or thrown; and totalRecords, counted as the data points are read
Finally(o, r0, r1) ==
  [o EXCEPT !.isRunning = IF InProgress(r1) THEN @ ELSE FALSE,
            !.stats.totalRecords = @ + (r1.pos - r0.pos)]

\* a step of the replay() call k that takes it from r0 to r1 at time t, the
\* replayer being o
Step(k, o, r0, r1, t) ==
  /\ NoEarlierTimer(k, t)
  /\ now' = t
  /\ replay' = IF k = 1 THEN r1 ELSE replay
  /\ overlap' = IF k = 2 THEN r1 ELSE overlap
  /\ replayer' = Finally(o, r0, r1)
  /\ inserts' = Inserted(r1, t)
  /\ UNCHANGED <<input, out, metrics, clientVars, parser, change>>
  /\ UNCHANGED <<pc, runs, benchmarkStartTime, durationEnd, endTime, nextPoll,
                 samples, pendingEvents, eventGenerationTimer, sseSubscription, sse,
                 tickBodies, clearIntervalCalls, unsubscribeCalls, lastArrival,
                 lastInsert, analysis>>

\* the files a replay reads: up to MaxFileEvents data points, in any order
Files == UNION {[1..n -> FileStamps] : n \in 0..MaxFileEvents}
\* and, where only the order of the steps is followed, up to MaxPoints
LongFiles == UNION {[1..n -> FileStamps] : n \in 0..MaxPoints}

\* the constructor's config for a mode, nothing else given
DefaultConfig(mode) ==
  [mode |-> mode, startFrom |-> NoTime, endAt |-> NoTime, maxEvents |-> 0,
   bulkBatchSize |-> BulkBatchSize, delayBetweenBatches |-> DelayBetweenBatchesMs]

\* replay(ntFilePath) on a replayer constructed with config, as call k: it
\* throws while isRunning; otherwise up to its first sleep or insertBatch
\* call: the stats reset, the health check (answered after `duration` ms),
\* the file read (realtime-frequency and bulk-upload throw on an empty one)
ReplayCall(k, config, file, healthy, duration) ==
  /\ pc = "NotStarted"
  /\ replayer.calls < MaxReplays
  /\ ~InProgress(Act(k))
  /\ k = 2 => InProgress(replay)
  /\ replayer.calls > 0 => (config = replayer.config /\ file = replay.file)
  /\ IF replayer.isRunning
     THEN /\ replayer' = [replayer EXCEPT !.calls = @ + 1, !.rejected = @ + 1]
          /\ UNCHANGED <<now, replay, overlap, inserts>>
          /\ UNCHANGED <<input, out, metrics, clientVars, parser, change>>
          /\ UNCHANGED <<pc, runs, benchmarkStartTime, durationEnd, endTime,
                         nextPoll, samples, pendingEvents, eventGenerationTimer,
                         sseSubscription, sse, tickBodies, clearIntervalCalls,
                         unsubscribeCalls, lastArrival, lastInsert, analysis>>
     ELSE LET t == now + duration
              o == [replayer EXCEPT !.calls = @ + 1, !.isRunning = TRUE,
                                    !.config = config, !.stats = NoStats]
              r0 == [NoReplay EXCEPT !.mode = config.mode, !.file = file,
                                     !.start = t,
                                     !.nextEventTime =
                                        IF config.mode = "realtime-frequency"
                                        THEN t ELSE NoTime]
              empty == config.mode # "historical" /\ Len(file) = 0
              r1 == IF ~healthy \/ empty
                    THEN [r0 EXCEPT !.phase = "failed"]
                    ELSE LoopHead(o, r0, t)
              read == IF healthy /\ config.mode # "historical" THEN Len(file) ELSE 0
              totalBatches == IF healthy /\ ~empty /\ config.mode = "bulk-upload"
                              THEN TotalBatches(config, Len(file)) ELSE 0
          IN Step(k, [o EXCEPT !.stats.totalRecords = read,
                               !.stats.totalBatches = totalBatches], r0, r1, t)

\* the first replay() of a replayer constructed with config
FirstReplay(config, file, healthy, duration) ==
  /\ replay.phase = "idle"
  /\ ReplayCall(1, config, file, healthy, duration)

\* the first replay() of a replayer constructed for a mode with the
\* defaults
Replay(mode, file, healthy, duration) ==
  FirstReplay(DefaultConfig(mode), file, healthy, duration)

\* the sleep before an event resolves, `late` ms after its deadline, and
\* processEvent calls insertBatch
ReplayWake(k, late) ==
  /\ Act(k).phase = "sleep"
  /\ Step(k, replayer, Act(k), [Act(k) EXCEPT !.phase = "insert", !.wake = NoTime],
          Act(k).wake + late)

\* processEvent gives the event up
GivesUp_OneMore(attempts) == attempts > MaxRetries

\* processEvent, after a failed attempt: if (attempts >= this.config.maxRetries)
GivesUp(attempts) == attempts >= MaxRetries

\* insertBatch returns in processEvent after `duration` ms: on success the
\* event is counted and the loop goes on; otherwise the attempt is counted
\* and processEvent backs off, or gives the event up after maxRetries
\* attempts
ReplayInsertReturn(k, result, duration) ==
  /\ Act(k).phase = "insert"
  /\ LET r == Act(k)
         t == now + duration
         attempts == r.attempts + 1
     IN IF result = "success"
        THEN LET o == [replayer EXCEPT !.stats.successfulInserts = @ + 1,
                                       !.stats.processedRecords = @ + 1]
             IN Step(k, o, r, AfterEvent(o, r, t), t)
        ELSE IF GivesUp(attempts)
        THEN LET o == [replayer EXCEPT
                         !.stats.failedInserts = @ + 1,
                         !.eventFailed = Append(@, [eventNumber |-> r.i,
                                                    attempts |-> attempts])]
             IN Step(k, o, r, AfterEvent(o, [r EXCEPT !.attempts = attempts], t), t)
        ELSE Step(k, replayer, r,
                  [r EXCEPT !.attempts = attempts, !.phase = "backoff",
                            !.wake = t + BackoffMs(attempts)], t)

\* the backoff sleep of processEvent resolves and insertBatch is called again
ReplayRetry(k, late) ==
  /\ Act(k).phase = "backoff"
  /\ Step(k, replayer, Act(k), [Act(k) EXCEPT !.phase = "insert", !.wake = NoTime],
          Act(k).wake + late)

\* insertBatch returns in replayWithBulkUpload: the batch is counted as
\* inserted or as failed; then the delay between batches, or after the last
\* batch the end of the loop
ReplayBatchReturn(k, result) ==
  /\ Act(k).phase = "batch"
  /\ LET r == Act(k)
         size == r.last - r.first + 1
         o == IF result = "success"
              THEN [replayer EXCEPT !.stats.successfulInserts = @ + size,
                                    !.stats.processedRecords = @ + size,
                                    !.stats.completedBatches = @ + 1]
              ELSE [replayer EXCEPT !.stats.failedInserts = @ + size]
         r1 == IF r.i < TotalBatches(o.config, Len(r.file)) - 1
               THEN [r EXCEPT !.phase = "delay",
                              !.wake = now + o.config.delayBetweenBatches]
               ELSE LoopHead(o, [r EXCEPT !.i = @ + 1], now)
     IN Step(k, o, r, r1, now)

\* the delay between two batches resolves
ReplayDelayEnd(k) ==
  /\ Act(k).phase = "delay"
  /\ LET r == Act(k) IN
     Step(k, replayer, r,
          LoopHead(replayer, [r EXCEPT !.i = @ + 1, !.wake = NoTime], r.wake), r.wake)

\* stop(), called during a replay: what the replayer had in hand is noted
Stop ==
  /\ replayer.stops < MaxStops
  /\ InProgress(replay) \/ InProgress(overlap)
  /\ replayer' = [replayer EXCEPT
                    !.isRunning = FALSE,
                    !.stops = @ + 1,
                    !.stopped = IF @ = NoStop
                                THEN [inserts |-> Len(inserts), eventNumber |-> replay.i,
                                      phase |-> replay.phase]
                                ELSE @]
  /\ UNCHANGED <<now, replay, overlap, inserts>>
  /\ UNCHANGED <<input, out, metrics, clientVars, parser, change>>
  /\ UNCHANGED <<pc, runs, benchmarkStartTime, durationEnd, endTime, nextPoll,
                 samples, pendingEvents, eventGenerationTimer, sseSubscription, sse,
                 tickBodies, clearIntervalCalls, unsubscribeCalls, lastArrival,
                 lastInsert, analysis>>

\* One replay of a file, in realtime-frequency or in historical mode.  The
\* replayer runs one step at a time, so the clock is moved by the step that
\* ends a wait; an insert the store accepts may take time, one it refuses is
\* answered at once.
ReplayNext ==
  \/ \E mode \in {"realtime-frequency", "historical"}, file \in Files,
        healthy \in BOOLEAN, duration \in InsertDurations :
       Replay(mode, file, healthy, duration)
  \/ \E late \in TimerLateness : ReplayWake(1, late)
  \/ \E duration \in InsertDurations : ReplayInsertReturn(1, "success", duration)
  \/ \E result \in {"failure", "throws"} : ReplayInsertReturn(1, result, 0)
  \/ \E late \in TimerLateness : ReplayRetry(1, late)

ReplaySpec == Init /\ [][ReplayNext]_vars

\* the configs of a replayer: the time filter of the historical mode, the
\* maxEvents of the stream command, the batch size of the bulk command
Configs ==
  {[DefaultConfig("historical") EXCEPT !.startFrom = w[1], !.endAt = w[2]] :
     w \in TimeWindows}
  \cup {[DefaultConfig("realtime-frequency") EXCEPT !.maxEvents = n] :
          n \in MaxEventsGiven}
  \cup {[DefaultConfig("bulk-upload") EXCEPT !.bulkBatchSize = n] : n \in BatchSizes}

\* One replay by a replayer of any mode and config, which may be stopped.
ReplayerNext ==
  \/ /\ replay.phase = "idle"
     /\ \E config \in Configs, file \in LongFiles, healthy \in BOOLEAN :
          FirstReplay(config, file, healthy, 0)
  \/ ReplayWake(1, 0)
  \/ \E result \in {"success", "failure"} : ReplayInsertReturn(1, result, 0)
  \/ ReplayRetry(1, 0)
  \/ \E result \in {"success", "failure"} : ReplayBatchReturn(1, result)
  \/ ReplayDelayEnd(1)
  \/ Stop

ReplayerSpec == Init /\ [][ReplayerNext]_vars

\* A replayer of any mode on a store that accepts every insert, stopped and
\* called again, during a replay and after it.
OverlapNext ==
  \/ /\ replayer.calls < MaxReplays
     /\ \E k \in 1..2, mode \in {"historical", "realtime-frequency", "bulk-upload"},
           file \in Files :
          ReplayCall(k, [DefaultConfig(mode) EXCEPT !.bulkBatchSize = 1], file, TRUE, 0)
  \/ \E k \in 1..2 : ReplayWake(k, 0)
  \/ \E k \in 1..2 : ReplayInsertReturn(k, "success", 0)
  \/ \E k \in 1..2 : ReplayBatchReturn(k, "success")
  \/ \E k \in 1..2 : ReplayDelayEnd(k)
  \/ Stop

OverlapSpec == Init /\ [][OverlapNext]_vars

(* ----------------------------- the parser ----------------------------- *)
\* the predicates parseTimeseriesFromFile knows, and two it does not
HasValue == "https://saref.etsi.org/core/hasValue"
HasTimestamp == "https://saref.etsi.org/core/hasTimestamp"
MeasurementMadeBy == "https://saref.etsi.org/core/measurementMadeBy"
RelatesToProperty == "https://saref.etsi.org/core/relatesToProperty"
RdfType == "http://www.w3.org/1999/02/22-rdf-syntax-ns#type"
InDataset == "http://rdfs.org/ns/void#inDataset"

\* a comment line of the file; a statement parseNTriple returns
CommentLine == [subject |-> <<"#">>, predicate |-> "#", object |-> "#"]
Statement(s, p, o) == [subject |-> s, predicate |-> p, object |-> o]

\* value.toFixed(2) and timestamp.toISOString() of the values and instants
\* the generator writes here
ValueLiterals == <<"21.50", "22.00", "22.50">>
TimeLiterals == <<"1970-01-01T00:00:00.000Z", "1970-01-01T00:00:06.000Z",
                  "1970-01-01T00:00:12.000Z">>

\* parseValue(value, datatype) for xsd:float: parseFloat(value)
ParseValue(object) ==
  IF object = ValueLiterals[1] THEN Num(2150, 100)
  ELSE IF object = ValueLiterals[2] THEN Num(2200, 100)
  ELSE IF object = ValueLiterals[3] THEN Num(2250, 100)
  ELSE NaN

\* new Date(statement.object).getTime(); NoTime for an invalid date
NewDate(object) ==
  IF object = TimeLiterals[1] THEN 0
  ELSE IF object = TimeLiterals[2] THEN 6000
  ELSE IF object = TimeLiterals[3] THEN 12000
  ELSE NoTime

\* measurements.set(measurementId, { id: measurementId })
NoValue == [kind |-> "undefined", num |-> 0, den |-> 0]
NewMeasurement(measurementId) ==
  [id |-> measurementId, value |-> NoValue, timestamp |-> NoTime,
   sensorId |-> Undefined, propertyType |-> Undefined, metadata |-> {}]

\* the switch on statement.predicate
Extract(measurement, statement) ==
  IF statement.predicate = HasValue
  THEN [measurement EXCEPT !.value = ParseValue(statement.object)]
  ELSE IF statement.predicate = HasTimestamp
  THEN [measurement EXCEPT !.timestamp = NewDate(statement.object)]
  ELSE IF statement.predicate = MeasurementMadeBy
  THEN [measurement EXCEPT !.sensorId = statement.object]
  ELSE IF statement.predicate = RelatesToProperty
  THEN [measurement EXCEPT !.propertyType = statement.object]
  ELSE [measurement EXCEPT
          !.metadata = {x \in @ : x[1] # statement.predicate}
                         \cup {<<statement.predicate, statement.object>>}]

\* measurement.value !== undefined && measurement.timestamp
HasRequiredFields(measurement) ==
  measurement.value # NoValue /\ measurement.timestamp # NoTime

\* the entry of the Map `measurements` (kept in insertion order) for an id;
\* 0 if it has none
RECURSIVE EntryOf(_, _, _)
EntryOf(measurements, measurementId, k) ==
  IF k > Len(measurements) THEN 0
  ELSE IF measurements[k].id = measurementId THEN k
  ELSE EntryOf(measurements, measurementId, k + 1)

\* measurements.delete(measurementId)
Delete(measurements, k) ==
  [j \in 1..(Len(measurements) - 1) |->
     IF j < k THEN measurements[j] ELSE measurements[j + 1]]

\* the data points parseTimeseriesFromFile yields, from line pos of the file
\* on, the Map being `measurements` and `yielded` having been yielded: line
\* by line, and at the end of the file what remains in the Map
RECURSIVE ParseLines(_, _, _, _)
ParseLines(file, pos, measurements, yielded) ==
  IF pos > Len(file)
  THEN yielded \o SelectSeq(measurements, HasRequiredFields)
  ELSE IF file[pos] = CommentLine
  THEN ParseLines(file, pos + 1, measurements, yielded)
  ELSE
    LET statement == file[pos]
        known == EntryOf(measurements, statement.subject, 1)
        map == IF known = 0
               THEN Append(measurements, NewMeasurement(statement.subject))
               ELSE measurements
        k == IF known = 0 THEN Len(map) ELSE known
        measurement == Extract(map[k], statement)
    IN IF HasRequiredFields(measurement)
       THEN ParseLines(file, pos + 1, Delete(map, k), Append(yielded, measurement))
       ELSE ParseLines(file, pos + 1, [map EXCEPT ![k] = measurement], yielded)

\* NTDataGenerator.writeNTTriples: the lines of one measurement
WriteNTTriples(measurementId, sensor, timestamp, value) ==
  << Statement(measurementId, RdfType, "https://saref.etsi.org/core/Measurement"),
     Statement(measurementId, HasValue, value),
     Statement(measurementId, HasTimestamp, timestamp),
     Statement(measurementId, MeasurementMadeBy, sensor),
     Statement(measurementId, RelatesToProperty, "https://saref.etsi.org/core/Temperature"),
     Statement(measurementId, InDataset, "http://example.org/replayed-data") >>

\* NTDataGenerator.generateNTFile for the first `sensors` of SensorIds and
\* `steps` instants: the header, then sensor by sensor the measurements of
\* each, numbered by measurementCount
RECURSIVE GenerateLines(_, _, _, _)
GenerateLines(sensors, steps, s, n) ==
  IF s > sensors THEN <<>>
  ELSE IF n > steps THEN GenerateLines(sensors, steps, s + 1, 1)
  ELSE WriteNTTriples(<<"Measurement", SensorIds[s], (s - 1) * steps + n>>,
                      SensorIds[s], TimeLiterals[n], ValueLiterals[n])
         \o GenerateLines(sensors, steps, s, n + 1)

\* the files to parse: the statements of one measurement (a subset of them,
\* in any order, up to MaxLines), and the files the generator writes
OneMeasurement ==
  {Statement(<<"Measurement", SensorIds[1], 1>>, RdfType, "https://saref.etsi.org/core/Measurement"),
   Statement(<<"Measurement", SensorIds[1], 1>>, HasValue, ValueLiterals[1]),
   Statement(<<"Measurement", SensorIds[1], 1>>, HasTimestamp, TimeLiterals[1]),
   Statement(<<"Measurement", SensorIds[1], 1>>, MeasurementMadeBy, SensorIds[1]),
   Statement(<<"Measurement", SensorIds[1], 1>>, RelatesToProperty, "https://saref.etsi.org/core/Temperature")}
NTFiles ==
  UNION {{f \in [1..n -> OneMeasurement] :
            \A i, j \in 1..n : f[i] = f[j] => i = j} : n \in 0..MaxLines}

ParseInit ==
  /\ BenchInit
  /\ ClientInit
  /\ input = <<>>
  /\ out = NoOut
  /\ metrics = NoMetrics
  /\ parser \in {[NoParser EXCEPT !.file = f] : f \in NTFiles}
  /\ change = NoChange

\* generateNTFile writes the file
GenerateNTFile(sensors, steps) ==
  /\ ~parser.parsed
  /\ parser' = [NoParser EXCEPT
                  !.file = <<CommentLine>> \o GenerateLines(sensors, steps, 1, 1)]
  /\ parser'.file # parser.file
  /\ UNCHANGED <<benchVars, input, out, metrics, clientVars, replay, inserts,
                 replayer, overlap, change>>

\* parseTimeseriesFromFile, read to its end
ParseTimeseriesFromFile ==
  /\ ~parser.parsed
  /\ parser' = [parser EXCEPT !.parsed = TRUE,
                              !.yielded = ParseLines(parser.file, 1, <<>>, <<>>)]
  /\ UNCHANGED <<benchVars, input, out, metrics, clientVars, replay, inserts,
                 replayer, overlap, change>>

ParseNext ==
  \/ \E sensors \in 1..Len(SensorIds), steps \in 1..MaxSteps :
       GenerateNTFile(sensors, steps)
  \/ ParseTimeseriesFromFile

ParseSpec == ParseInit /\ [][ParseNext]_vars

(* ------------------- the measurements of an SSE change ---------------- *)
\* The items of the insert graph of a change: '@id', '@type', the value
\* (saref:hasValue) and the timestamp (saref:hasTimestamp) of an item; 0 stands
\* for a property the item does not have (a value of 0 is taken for none by
\* convertChangeToMeasurement as well).
ItemIds == {Undefined, "Measurement_S1_1", "Measurement_S1_2", "S1"}
ItemTypes == {"https://saref.etsi.org/core/Measurement", "https://saref.etsi.org/core/Sensor"}
Items == [id : ItemIds, type : ItemTypes, value : 0..2, timestamp : {0, UnitMs}]
Graphs == UNION {[1..n -> Items] : n \in 0..MaxGraph}

\* String.includes('Measurement')
IncludesMeasurement(s) ==
  s \in {"Measurement_S1_1", "Measurement_S1_2", "https://saref.etsi.org/core/Measurement"}

\* isMeasurementData(item)
IsMeasurementData(item) ==
  \/ IncludesMeasurement(item.type)
  \/ item.value # 0
  \/ IncludesMeasurement(item.id)

\* convertChangeToMeasurement returning null
NoMeasurement == [id |-> Undefined, value |-> 0, timestamp |-> 0]

\* the timestamp convertChangeToMeasurement gives a measurement: that of the
\* item, else that of the change, else the current time
TimestampOf(item, fullChange) ==
  IF item.timestamp # 0 THEN item.timestamp
  ELSE IF fullChange.timestamp # 0 THEN fullChange.timestamp
  ELSE now

\* convertChangeToMeasurement(change.insert, change): the loop over the graph
\* from item i on, returning at the first item that is a measurement and has
\* an '@id' and a value
RECURSIVE ConvertChangeToMeasurement(_, _)
ConvertChangeToMeasurement(fullChange, i) ==
  IF i > Len(fullChange.graph) THEN NoMeasurement
  ELSE IF /\ IsMeasurementData(fullChange.graph[i])
          /\ fullChange.graph[i].id # Undefined
          /\ fullChange.graph[i].value # 0
       THEN [id |-> fullChange.graph[i].id, value |-> fullChange.graph[i].value,
             timestamp |-> TimestampOf(fullChange.graph[i], fullChange)]
       ELSE ConvertChangeToMeasurement(fullChange, i + 1)

\* the onChange callback of subscribeToMeasurementsSSE, from item i of the
\* graph on: for every item that is a measurement, the change is converted and
\* the measurement, if there is one, is handed to onNewMeasurement
RECURSIVE OnSseChange(_, _)
OnSseChange(c, i) ==
  IF i > Len(c.graph) THEN <<>>
  ELSE (IF /\ IsMeasurementData(c.graph[i])
           /\ ConvertChangeToMeasurement(c, 1) # NoMeasurement
        THEN <<ConvertChangeToMeasurement(c, 1)>>
        ELSE <<>>) \o OnSseChange(c, i + 1)

ChangeInit ==
  /\ BenchInit
  /\ ClientInit
  /\ input = <<>>
  /\ out = NoOut
  /\ metrics = NoMetrics
  /\ parser = NoParser
  /\ change \in {[NoChange EXCEPT !.graph = g, !.timestamp = t] :
                   g \in Graphs, t \in {0, 2 * UnitMs}}

\* eventSource.onmessage with the change: onChange(changeData)
SseChange ==
  /\ ~change.received
  /\ change' = [change EXCEPT !.received = TRUE, !.callbacks = OnSseChange(change, 1)]
  /\ UNCHANGED <<benchVars, input, out, metrics, clientVars, replay, inserts,
                 replayer, overlap, parser>>

ChangeNext == SseChange

ChangeSpec == ChangeInit /\ [][ChangeNext]_vars

(* ------------------------------ claims -------------------------------- *)
InRun == pc \in {"waitForDuration", "waitForPendingEvents"}
StartsRun == pc # "waitForDuration" /\ pc' = "waitForDuration"
Appended == Len(samples') = Len(samples) + 1
              /\ SubSeq(samples', 1, Len(samples)) = samples
LastSample == samples'[Len(samples')]

\* C1: each correlation key yields at most one sample: no two samples of the
\* Sample Store were correlated by the same key.
C1_AtMostOnce ==
  \A i, j \in 1..Len(samples) : samples[i].key = samples[j].key => i = j

\* C2: an arrival whose timestamp is strictly earlier than benchmarkStartTime
\* leaves the samples and the pending entries unchanged, whatever its key.
C2_BacklogDropped ==
  [][(lastArrival' # NoArrival /\ lastArrival'.timestamp < benchmarkStartTime)
       => UNCHANGED <<samples, pendingEvents>>]_vars

\* C2 witness: such an arrival was delivered while its key was pending.
C2_Witness ==
  /\ lastArrival # NoArrival
  /\ lastArrival.timestamp < benchmarkStartTime
  /\ lastArrival.id \in DOMAIN pendingEvents

\* C3: an arrival (not backlog) whose key is pending appends exactly one
\* sample, whose latency is the arrival time minus the generation time of the
\* event with that key, in whatever order the arrivals come.
C3_KeyBased ==
  [][(/\ lastArrival' # NoArrival
      /\ lastArrival'.timestamp >= benchmarkStartTime
      /\ lastArrival'.id \in DOMAIN pendingEvents)
       => /\ Appended
          /\ LastSample.key = lastArrival'.id
          /\ LastSample.generatedAt = pendingEvents[lastArrival'.id].generatedAt
          /\ LastSample.receivedAt = now
          /\ LastSample.totalLatencyMs = now - pendingEvents[lastArrival'.id].generatedAt
          /\ lastArrival'.id \notin DOMAIN pendingEvents']_vars

\* C3 witness: two events of one sensor were sampled in the reverse of the
\* order in which they were generated.
C3_Witness ==
  \E i, j \in 1..Len(samples) :
    /\ i < j
    /\ samples[i].key.sensorId = samples[j].key.sensorId
    /\ samples[i].generatedAt > samples[j].generatedAt

\* C4: the Sample Store never holds more than maxLatencySamples samples; within
\* a run it only grows, by appending; and the arrival that appends the
\* maxLatencySamples-th sample cancels the timer and unsubscribes.
C4_Capped ==
  [][/\ Len(samples') <= MaxLatencySamples
     /\ \/ samples' = samples
        \/ Appended
        \/ StartsRun /\ samples' = <<>>
     /\ (Len(samples) < MaxLatencySamples /\ Len(samples') = MaxLatencySamples)
          => /\ ~eventGenerationTimer'.armed
             /\ sseSubscription' = Undefined
             /\ sse'.eventSource = "null"]_vars

\* C4 witness: the cap was reached.
C4_Witness == Len(samples) = MaxLatencySamples

\* C5: once the cap is reached before the test duration has elapsed, the run
\* is no longer waiting out the duration.
C5_LeavesRunningAtOnce ==
  (Len(samples) >= MaxLatencySamples /\ now < durationEnd) => pc # "waitForDuration"

\* C6: while the generation timer is canceled, no event is registered in the
\* Pending-Event Table.
C6_NoRegistrationAfterCancel ==
  [][(~eventGenerationTimer.armed /\ ~eventGenerationTimer'.armed)
       => DOMAIN pendingEvents' \subseteq DOMAIN pendingEvents]_vars

\* C7: in a run the timer is cleared and unsubscribe() is invoked at most once,
\* and exactly once by the time the run is complete, also when stopBenchmark
\* runs at the cap and again at the end; the arrival that stops the run appends
\* its one sample and nothing is appended after that stop.
C7_IdempotentStop ==
  [][/\ clearIntervalCalls' <= 1
     /\ unsubscribeCalls' <= 1
     /\ pc' = "Complete" => (clearIntervalCalls' = 1 /\ unsubscribeCalls' = 1)
     /\ (unsubscribeCalls = 0 /\ unsubscribeCalls' >= 1 /\ lastArrival' # NoArrival)
          => Appended
     /\ (unsubscribeCalls >= 1 /\ unsubscribeCalls' >= 1) => samples' = samples]_vars

\* C7 witness: a run is complete in which stopBenchmark ran at the cap and
\* again at the end.
C7_Witness ==
  /\ pc = "Complete"
  /\ Len(samples) >= MaxLatencySamples
  /\ unsubscribeCalls = 1
  /\ clearIntervalCalls = 1

\* C8: the drain never outlasts its timeout, and a run that has started
\* reaches Complete.
C8_DrainEnds ==
  /\ [](pc = "waitForPendingEvents" => now < endTime + UnitMs)
  /\ (InRun ~> pc = "Complete")

\* C8 witness: the drain has waited out its timeout with entries still unmatched.
C8_Witness ==
  /\ pc = "waitForPendingEvents"
  /\ now >= endTime
  /\ DOMAIN pendingEvents # {}

\* C9: the step that completes a run leaves the Pending-Event Table empty
\* (entries still unmatched when the drain ends are swept).
C9_EmptyAtComplete ==
    [][(pc # "Complete" /\ pc' = "Complete") => DOMAIN pendingEvents' = {}]_vars

\* C10: every run starts with an empty Pending-Event Table and an empty
\* Sample Store.
C10_FreshRun ==
  [][StartsRun => (samples' = <<>> /\ DOMAIN pendingEvents' = {})]_vars

\* the tick bodies awaiting the insert of an event with key k
Awaiting(bodies, k) == {j \in 1..Len(bodies) : BodyKey(bodies[j]) = k}

\* C11: when insertBatch throws or returns success = false, the step registers
\* nothing, the event is not submitted again, the body goes on to its next
\* sensor (if it has one) and the timer that starts later ticks is untouched.
C11_FailureDropped ==
  [][lastInsert'.result \in {"failure", "throws"}
       => /\ pendingEvents' = pendingEvents
          /\ Cardinality(Awaiting(tickBodies', lastInsert'.key))
               = Cardinality(Awaiting(tickBodies, lastInsert'.key)) - 1
          /\ IF lastInsert'.idx < Len(SensorIds)
             THEN /\ Len(tickBodies') = Len(tickBodies)
                  /\ \E j \in 1..Len(tickBodies') :
                       tickBodies'[j] = BodyAt(lastInsert'.idx + 1, now)
             ELSE Len(tickBodies') = Len(tickBodies) - 1
          /\ eventGenerationTimer' = eventGenerationTimer]_vars

\* C11 witness: the insert of the first sensor's event failed, the event is
\* not registered, and the same tick body has gone on to the next sensor.
C11_Witness ==
  /\ lastInsert.result \in {"failure", "throws"}
  /\ lastInsert.idx = 1
  /\ lastInsert.key \notin DOMAIN pendingEvents
  /\ \E j \in 1..Len(tickBodies) : tickBodies[j] = BodyAt(2, now)
  /\ eventGenerationTimer.armed

\* C12: once the subscription has failed for good without ever having opened
\* (every reconnect attempt failed), the run is aborted: no step generates
\* further events and the run does not complete with a normal result.
C12_SubscriptionFailureAborts ==
  [][(sse.gaveUp /\ ~sse.opened)
       => (tickBodies' = tickBodies /\ pc' # "Complete")]_vars

\* the values a JavaScript division can give without throwing
JsNumbers == {"number", "NaN", "Infinity", "-Infinity"}

\* C13: a run that completes with zero samples has returned its analysis:
\* every percentile in it is 0, and the tail ratio and the cache hit rate,
\* whose divisors are 0, were computed without an exception.
C13_EmptyAnalysis ==
  (pc = "Complete" /\ Len(samples) = 0)
    => /\ analysis.done
       /\ \A f \in {"p50", "p90", "p95", "p99", "p999"} : analysis.tailAnalysis[f] = 0
       /\ analysis.tailAnalysis.tailLatencyRatio.kind \in JsNumbers
       /\ analysis.cacheHitImpact.hitRate.kind \in JsNumbers

\* C13 witness: a run is complete that generated events and sampled none.
C13_Witness ==
  /\ pc = "Complete"
  /\ Len(samples) = 0
  /\ DOMAIN pendingEvents # {}

\* the k-th smallest element of a sequence (k from 1), by counting
KthSmallest(s, k) ==
  CHOOSE v \in {s[i] : i \in 1..Len(s)} :
    /\ Cardinality({i \in 1..Len(s) : s[i] < v}) < k
    /\ Cardinality({i \in 1..Len(s) : s[i] <= v}) >= k

\* C14: percentile(values, p) is the linear interpolation at index
\* p/100*(n-1) of the values in ascending order: 30, 50 and 10 at p = 50, 100
\* and 0 for [10,20,30,40,50], 25 at p = 50 for [10,20,30,40], the minimum at
\* p = 0 and the maximum at p = 100 for every non-empty input.
C14_Percentile ==
  (out.fn = "percentile" /\ Len(input) > 0)
    => LET n == Len(input)
           index == out.p * (n - 1)
           lo == KthSmallest(input, index \div 1000 + 1)
           hi == KthSmallest(input, (index + 999) \div 1000 + 1)
       IN /\ out.value = lo * (1000 - (index % 1000)) + hi * (index % 1000)
          /\ out.p = 0 => out.value = 1000 * KthSmallest(input, 1)
          /\ out.p = 1000 => out.value = 1000 * KthSmallest(input, n)
          /\ (input = <<10, 20, 30, 40, 50>> /\ out.p = 500) => out.value = 30000
          /\ (input = <<10, 20, 30, 40, 50>> /\ out.p = 1000) => out.value = 50000
          /\ (input = <<10, 20, 30, 40, 50>> /\ out.p = 0) => out.value = 10000
          /\ (input = <<10, 20, 30, 40>> /\ out.p = 500) => out.value = 25000

\* C14 witness: the median of an unsorted input of even length was computed,
\* between its two middle values.
C14_Witness ==
  /\ out.fn = "percentile"
  /\ input = <<40, 10, 30, 20>>
  /\ out.p = 500
  /\ out.value = 25000

\* C15: with fewer than MinSamples samples every percentile reported is zero:
\* in the snapshot stored with each sample, and in the tail-latency and SLO
\* analysis of the completed run.
C15_BelowMinimumZero ==
  (pc = "Complete" /\ Len(samples) < MinSamples)
    => /\ \A i \in 1..Len(samples) :
            \A f \in {"p50", "p90", "p95", "p99"} : samples[i].percentiles[f] = 0
       /\ \A f \in {"p50", "p90", "p95", "p99", "p999"} : analysis.tailAnalysis[f] = 0
       /\ analysis.sloCompliance.p95.actual = 0
       /\ analysis.sloCompliance.p99.actual = 0

\* C16: for at least MinSamples latencies and p in {50, 90, 95, 99}, the
\* per-sample snapshot and the subscriber's percentile give the value
\* percentile(values, p) gives, the linear-interpolation estimate.
C16_SameEstimator ==
  Len(input) >= MinSamples
    => /\ out.fn = "calculatePercentilesForSample"
            => /\ out.value.p50 * 1000 = Percentile(input, 500)
               /\ out.value.p90 * 1000 = Percentile(input, 900)
               /\ out.value.p95 * 1000 = Percentile(input, 950)
               /\ out.value.p99 * 1000 = Percentile(input, 990)
       /\ (out.fn = "subscriberPercentile" /\ out.p \in {500, 900, 950, 990})
            => out.value * 1000 = Percentile(input, out.p)

\* C17: no latency that enters the statistics is negative: neither a sample's
\* totalLatencyMs nor a value, the minimum or the sum of the subscriber's
\* metrics.
C17_NoNegativeLatency ==
  /\ \A i \in 1..Len(samples) : samples[i].totalLatencyMs >= 0
  /\ \A i \in 1..Len(metrics.values) : metrics.values[i] >= 0
  /\ metrics.count > 0 => metrics.min.num >= 0

\* C18: correlation keys are unique per in-flight event: a registration never
\* lands on the pending entry of another event.
C18_UniqueKeys ==
  [][lastInsert'.result = "success"
       => lastInsert'.key \notin DOMAIN pendingEvents]_vars

\* C19: a notification without id that carries the sensorId and the generation
\* timestamp of a pending event (and is not backlog) is correlated with that
\* event: it appends the event's sample.
C19_DerivedKeyCorrelates ==
  [][(/\ lastArrival' # NoArrival
      /\ lastArrival'.id = NoId
      /\ lastArrival'.timestamp >= benchmarkStartTime
      /\ sse.eventSource = "open"
      /\ MeasurementId(lastArrival'.sensorId, lastArrival'.timestamp)
            \in DOMAIN pendingEvents)
       => /\ Appended
          /\ LastSample.generatedAt = lastArrival'.timestamp
          /\ LastSample.sensorId = lastArrival'.sensorId]_vars

\* C20: a notification whose key is not (yet) registered misses: the arrival
\* changes neither the samples nor the pending entries, and stops nothing.
C20_MissIsHarmless ==
  [][(/\ lastArrival' # NoArrival
      /\ sse.eventSource = "open"
      /\ lastArrival'.id # NoId
      /\ lastArrival'.id \notin DOMAIN pendingEvents)
       => UNCHANGED <<samples, pendingEvents, eventGenerationTimer,
                      sseSubscription, sse>>]_vars

\* C20 witness: the notification of an event was handled while the tick body
\* that submitted it was still awaiting insertBatch, the event not registered.
C20_Witness ==
  /\ lastArrival # NoArrival
  /\ lastArrival.id # NoId
  /\ lastArrival.timestamp >= benchmarkStartTime
  /\ sse.eventSource = "open"
  /\ lastArrival.id \in {BodyKey(tickBodies[i]) : i \in 1..Len(tickBodies)}
  /\ lastArrival.id \notin DOMAIN pendingEvents
  /\ \A i \in 1..Len(samples) : samples[i].key # lastArrival.id

\* C21: a run goes through NotStarted, Running (waitForDuration), Draining
\* (waitForPendingEvents, skipped when nothing is pending), Complete in that
\* order; a timer tick submits an event only with the subscription requested;
\* below the cap the subscription is held through the duration and the whole
\* drain; and unsubscribe() is called only by the step that completes the run
\* or by the arrival that reaches the cap.
C21_Lifecycle ==
  [][/\ pc' # pc =>
          \/ pc \in {"NotStarted", "Complete"} /\ pc' = "waitForDuration"
          \/ pc = "waitForDuration" /\ pc' \in {"waitForPendingEvents", "Complete"}
          \/ pc = "waitForPendingEvents" /\ pc' = "Complete"
     /\ Len(tickBodies') > Len(tickBodies)
          => (sseSubscription = "handle" /\ sse.isRunning /\ sse.eventSource # "null")
     /\ (pc' \in {"waitForDuration", "waitForPendingEvents"}
           /\ Len(samples') < MaxLatencySamples)
          => (sseSubscription' = "handle" /\ sse'.isRunning)
     /\ (unsubscribeCalls' > unsubscribeCalls \/ (sse.isRunning /\ ~sse'.isRunning))
          => (pc' = "Complete" \/ Len(samples') >= MaxLatencySamples)]_vars

\* C21 witness: an arrival in the drain, after the duration, produced a sample
\* and the run is still subscribed.
C21_Witness ==
  /\ pc = "waitForPendingEvents"
  /\ now >= durationEnd
  /\ lastArrival # NoArrival
  /\ Len(samples) >= 1
  /\ samples[Len(samples)].key = lastArrival.id
  /\ samples[Len(samples)].receivedAt = now
  /\ sseSubscription = "handle"
  /\ sse.isRunning

\* C22: once unsubscribe() has returned on an SSE handle, the callback is not
\* invoked again and no connection is opened (none exists), also when the
\* reconnect timer of an earlier error fires afterwards.
C22_SseUnsubscribeStops ==
  [][(obs.subscribed /\ obs.unsubscribeCalls >= 1)
       => /\ delivered' = delivered
          /\ sse'.eventSource = "null"
          /\ ~sse'.isRunning]_vars

\* C22 witness: unsubscribe() was called while a reconnect timer was pending,
\* and that timer has fired since.
C22_Witness ==
  /\ obs.subscribed
  /\ obs.unsubscribeCalls >= 1
  /\ obs.lateTimers >= 1
  /\ sse.reconnectAt = NoTime
  /\ sse.eventSource = "null"

\* C23: once unsubscribe() has returned on a polling handle, the callback is
\* not invoked again and no poll is scheduled, also when the query of a poll
\* was in flight at the call.
C23_PollUnsubscribeStops ==
  [][(obs.subscribed /\ obs.unsubscribeCalls >= 1)
       => /\ delivered' = delivered
          /\ poll'.pollTimer = NoTime]_vars

\* C24: a second unsubscribe() on a handle has no effect: it releases nothing
\* again, leaves the closure as it was and does not invoke the registered
\* disconnect callbacks a second time.
C24_UnsubscribeIdempotent ==
  [][(obs.unsubscribeCalls >= 1 /\ obs'.unsubscribeCalls > obs.unsubscribeCalls)
       => /\ obs'.disconnectCalls = obs.disconnectCalls
          /\ obs'.closeCalls = obs.closeCalls
          /\ sse' = sse
          /\ poll' = poll]_vars

\* C25: a subscription made by subscribeToMeasurementsSSE with a sensorId in
\* its config hands to the callback only measurements of that sensor.
C25_SseSensorFilter ==
  (obs.subscribed /\ obs.sensorId # Undefined)
    => \A i \in 1..Len(delivered) : delivered[i].sensorId = obs.sensorId

\* C26: across the polls of a subscription a stored measurement is handed to
\* the callback at most once, and the tracked lastTimestamp never decreases.
C26_DeliveredOnce ==
  [][/\ \A i, j \in 1..Len(delivered') :
          delivered'[i].id = delivered'[j].id => i = j
     /\ (poll.isRunning /\ poll'.isRunning)
          => poll'.lastTimestamp >= poll.lastTimestamp]_vars

\* C27: in realtime-frequency mode every insertBatch call for the i-th
\* streamed event (i from 0) carries the timestamp start + i * (1000 /
\* frequencyHz), whatever the file says and however long earlier inserts
\* took, and is not made before that time.
C27_RealtimeSchedule ==
  replay.mode = "realtime-frequency"
    => \A k \in 1..Len(inserts) :
         /\ inserts[k].timestamp = replay.start + inserts[k].eventNumber * IntervalMs
         /\ inserts[k].at >= inserts[k].timestamp

\* C27 witness: an event after the first was submitted late, earlier inserts
\* having taken longer than the interval, with a timestamp that is not the
\* one of its data point in the file.
C27_Witness ==
  /\ replay.mode = "realtime-frequency"
  /\ replay.start > 0
  /\ \E k \in 1..Len(inserts) :
       /\ inserts[k].eventNumber >= 1
       /\ inserts[k].at > inserts[k].timestamp
       /\ inserts[k].timestamp # replay.file[inserts[k].eventNumber + 1]

\* C28: in historical mode the sleep before an event is the difference between
\* its timestamp and that of the event replayed before it, divided by
\* timeAcceleration (nothing for the first event or a difference that is not
\* positive).
C28_HistoricalDelay ==
  (replay.mode = "historical" /\ replay.phase \in {"sleep", "insert", "backoff"})
    => replay.waited * TimeAcceleration =
         IF replay.lastTimestamp # NoTime /\ replay.cur > replay.lastTimestamp
         THEN replay.cur - replay.lastTimestamp ELSE 0

\* C29: computing the statistics does not change the Sample Store: the step
\* that completes a run and returns its analysis leaves the samples exactly
\* as they were appended, in arrival order.
C29_AnalysisKeepsSamples ==
  [][(pc # "Complete" /\ pc' = "Complete")
       => /\ analysis'.done
          /\ samples' = samples
          /\ \A i, j \in 1..Len(samples') :
               i < j => samples'[i].receivedAt <= samples'[j].receivedAt]_vars

\* C29 witness: a run is complete and analysed whose samples are not in
\* ascending order of latency.
C29_Witness ==
  /\ pc = "Complete"
  /\ analysis.done
  /\ Len(samples) >= 2
  /\ samples[1].totalLatencyMs > samples[2].totalLatencyMs
  /\ samples[1].receivedAt < samples[2].receivedAt

\* C30: the SLO verdict is overallCompliant exactly when p95 <= p95Target and
\* p99 <= p99Target; burnRateAlert is raised exactly when one of the overshoot
\* ratios (p - target) / target exceeds burnRateThreshold; a verdict that is
\* compliant does not raise the alert.
C30_SloVerdict ==
  out.fn = "checkSLOCompliance"
    => LET p95 == Percentile(input, 950)
           p99 == Percentile(input, 990)
           t95 == P95TargetMs * 1000
           t99 == P99TargetMs * 1000
       IN /\ out.value.overallCompliant <=> (p95 <= t95 /\ p99 <= t99)
          /\ out.value.burnRateAlert
               <=> (p95 - t95 > BurnRateThreshold * t95
                     \/ p99 - t99 > BurnRateThreshold * t99)
          /\ out.value.overallCompliant => ~out.value.burnRateAlert

\* C30 witness: a verdict that is not compliant and raises the alert on the
\* larger of the two ratios alone: p95 overshoots its target by more than the
\* threshold, p99 overshoots its own by less.
C30_Witness ==
  /\ out.fn = "checkSLOCompliance"
  /\ ~out.value.overallCompliant
  /\ out.value.burnRateAlert
  /\ Exceeds(out.value.p95.errorBudgetBurn, BurnRateThreshold)
  /\ ~Exceeds(out.value.p99.errorBudgetBurn, BurnRateThreshold)

\* C31: at most one replay() call is in progress on a replayer at any time: a
\* call made while an earlier one has neither returned nor thrown is rejected,
\* stop() having been called in between or not.
C31_OneReplayAtATime == ~(InProgress(replay) /\ InProgress(overlap))

\* C32: once stop() has been called during a replay, the replayer makes no
\* insertBatch call for an event (a batch) other than the one it had in hand
\* when stop() was called, in any of the three modes.
C32_StopEndsReplay ==
  replayer.stopped # NoStop
    => \A k \in (replayer.stopped.inserts + 1)..Len(inserts) :
         inserts[k].eventNumber = replayer.stopped.eventNumber

\* the events of the replay in hand are handed to processEvent
ByEvent == replay.mode \in {"realtime-frequency", "historical"}

\* C33: processEvent calls insertBatch at most maxRetries times for an event
\* and not again after a success; when it returns, exactly one of
\* successfulInserts and failedInserts has grown by one, and neither changes
\* otherwise; eventFailed is emitted once for an event, after its
\* maxRetries-th failed attempt and only then; and after a failed event the
\* replay goes on with the next data point.
C33_ProcessEvent ==
  [][ByEvent' =>
       LET s == replayer.stats
           s1 == replayer'.stats
           returned == replay.phase = "insert" /\ replay'.i = replay.i + 1
       IN /\ \A k \in 1..Len(inserts') : inserts'[k].attempt <= MaxRetries
          /\ Len(inserts') > Len(inserts)
               => \/ inserts'[Len(inserts')].attempt = 1
                  \/ /\ s1 = s
                     /\ inserts'[Len(inserts')].eventNumber = replay.i
                     /\ inserts'[Len(inserts')].attempt = replay'.attempts + 1
          /\ returned
               => \/ /\ s1.successfulInserts = s.successfulInserts + 1
                     /\ s1.failedInserts = s.failedInserts
                     /\ replayer'.eventFailed = replayer.eventFailed
                  \/ /\ s1.successfulInserts = s.successfulInserts
                     /\ s1.failedInserts = s.failedInserts + 1
                     /\ replay.attempts = MaxRetries - 1
                     /\ replayer'.eventFailed =
                          Append(replayer.eventFailed,
                                 [eventNumber |-> replay.i, attempts |-> MaxRetries])
                     /\ replay'.phase # "failed"
                     /\ replay'.i < Len(replay.file)
                          => replay'.phase \in {"sleep", "insert"}
          /\ (~returned /\ replay.phase # "idle")
               => /\ s1.successfulInserts = s.successfulInserts
                  /\ s1.failedInserts = s.failedInserts
                  /\ replayer'.eventFailed = replayer.eventFailed
          /\ s1.successfulInserts + s1.failedInserts = replay'.i
     ]_vars

\* C33 witness: an event was given up after maxRetries failed attempts,
\* eventFailed was emitted for it, and the next event was inserted, at its
\* second attempt.
C33_Witness ==
  /\ ByEvent
  /\ Len(replayer.eventFailed) = 1
  /\ replayer.stats.failedInserts = 1
  /\ replayer.stats.successfulInserts = 1
  /\ \E k \in 1..Len(inserts) :
       /\ inserts[k].eventNumber > replayer.eventFailed[1].eventNumber
       /\ inserts[k].attempt = 2
  /\ Cardinality({k \in 1..Len(inserts) :
                    inserts[k].eventNumber = replayer.eventFailed[1].eventNumber})
       = MaxRetries

\* C34: in bulk-upload mode the k-th insertBatch call (k from 0) submits the
\* data points k * bulkBatchSize + 1 .. min((k + 1) * bulkBatchSize, n) of the
\* n in the file, whether earlier batches failed or not; and when the upload
\* has finished without stop(), every data point was submitted in exactly one
\* batch, successfulInserts + failedInserts = totalRecords = n and
\* completedBatches <= totalBatches.
C34_BulkBatches ==
  replay.mode = "bulk-upload"
    => LET size == replayer.config.bulkBatchSize
           n == Len(replay.file)
           s == replayer.stats
       IN /\ \A k \in 1..Len(inserts) :
               /\ inserts[k].eventNumber = k - 1
               /\ inserts[k].first = (k - 1) * size + 1
               /\ inserts[k].last = IF k * size < n THEN k * size ELSE n
               /\ inserts[k].last >= inserts[k].first
               /\ inserts[k].last - inserts[k].first + 1 <= size
          /\ (replay.phase = "done" /\ replayer.stops = 0)
               => /\ \A p \in 1..n :
                       Cardinality({k \in 1..Len(inserts) :
                                      inserts[k].first <= p /\ p <= inserts[k].last}) = 1
                  /\ s.totalRecords = n
                  /\ s.successfulInserts + s.failedInserts = s.totalRecords
                  /\ s.completedBatches <= s.totalBatches
                  /\ s.totalBatches = Len(inserts)

\* C34 witness: an upload of three data points in batches of two has
\* finished without stop(); the first batch failed, the second, of one data
\* point, was inserted.
C34_Witness ==
  /\ replay.mode = "bulk-upload"
  /\ replay.phase = "done"
  /\ replayer.stops = 0
  /\ Len(replay.file) = 3
  /\ replayer.config.bulkBatchSize = 2
  /\ Len(inserts) = 2
  /\ replayer.stats.failedInserts = 2
  /\ replayer.stats.successfulInserts = 1
  /\ replayer.stats.completedBatches = 1

\* C35: a historical replay with startFrom and endAt configured has, when it
\* returns, submitted exactly the data points of the file whose timestamp
\* lies in [startFrom, endAt], in whatever order the file holds them.
C35_TimeWindow ==
  (/\ replay.mode = "historical"
   /\ replay.phase = "done"
   /\ replayer.config.startFrom # NoTime
   /\ replayer.config.endAt # NoTime)
    => {inserts[k].first : k \in 1..Len(inserts)}
         = {p \in 1..Len(replay.file) :
              /\ replay.file[p] >= replayer.config.startFrom
              /\ replay.file[p] <= replayer.config.endAt}

\* the statements of the file about a subject, and its subjects
StatementsOf(subject) ==
  {parser.file[i] : i \in {j \in 1..Len(parser.file) :
                             parser.file[j].subject = subject}}
Subjects ==
  {parser.file[i].subject : i \in {j \in 1..Len(parser.file) :
                                     parser.file[j] # CommentLine}}
Has(subject, predicate) == \E st \in StatementsOf(subject) : st.predicate = predicate

\* C36: parseTimeseriesFromFile yields one data point for every subject of
\* the file that has a value and a timestamp, and for no other; the data
\* point carries the sensor and the property the file states for the subject
\* and, as metadata, every other statement about it, wherever in the file
\* those statements stand.
C36_DataPoints ==
  parser.parsed
    => /\ \A k \in 1..Len(parser.yielded) :
            /\ parser.yielded[k].id \in Subjects
            /\ Has(parser.yielded[k].id, HasValue)
            /\ Has(parser.yielded[k].id, HasTimestamp)
       /\ \A s \in Subjects :
            (Has(s, HasValue) /\ Has(s, HasTimestamp))
              => /\ Cardinality({k \in 1..Len(parser.yielded) :
                                   parser.yielded[k].id = s}) = 1
                 /\ \A k \in 1..Len(parser.yielded) :
                      parser.yielded[k].id = s
                        => \A st \in StatementsOf(s) :
                             /\ st.predicate = MeasurementMadeBy
                                  => parser.yielded[k].sensorId = st.object
                             /\ st.predicate = RelatesToProperty
                                  => parser.yielded[k].propertyType = st.object
                             /\ st.predicate \in {RdfType, InDataset}
                                  => <<st.predicate, st.object>>
                                       \in parser.yielded[k].metadata


\* C37: on an SSE subscription the reconnect timers that have called connect()
\* since the connection last opened never number more than reconnectAttempts;
\* an open connection has a reconnect count of 0; and an error that finds the
\* count exhausted schedules no reconnect and invokes the disconnect callbacks.
C37_ReconnectCount ==
  [][/\ sse'.attempts <= ReconnectAttempts
     /\ sse'.reconnectCount <= ReconnectAttempts
     /\ (sse'.eventSource = "open" => sse'.reconnectCount = 0)
     /\ (/\ sse.eventSource \in {"connecting", "open"}
         /\ sse'.eventSource = "error"
         /\ sse.reconnectCount >= ReconnectAttempts)
        => /\ sse'.gaveUp
           /\ sse'.reconnectAt = sse.reconnectAt
           /\ sse'.laterTimers = sse.laterTimers
           /\ obs'.disconnectCalls = obs.disconnectCalls + obs.disconnectCallbacks]_vars


\* the measurement items of the graph of the change, in the graph's order
MeasurementItems == SelectSeq(change.graph, IsMeasurementData)

\* C38: for a change whose insert graph holds k measurement items (each with
\* an id, a value and a timestamp), subscribeToMeasurementsSSE calls
\* onNewMeasurement k times, and the i-th call carries the id, the value and
\* the timestamp of the i-th of them.
C38_OneCallbackPerItem ==
  (/\ change.received
   /\ \A i \in 1..Len(MeasurementItems) :
        /\ MeasurementItems[i].id # Undefined
        /\ MeasurementItems[i].value # 0
        /\ MeasurementItems[i].timestamp # 0)
    => /\ Len(change.callbacks) = Len(MeasurementItems)
       /\ \A i \in 1..Len(MeasurementItems) :
            /\ change.callbacks[i].id = MeasurementItems[i].id
            /\ change.callbacks[i].value = MeasurementItems[i].value
            /\ change.callbacks[i].timestamp = MeasurementItems[i].timestamp


\* the events for which the replayer has called insertBatch
EventsStreamed == {inserts[k].eventNumber : k \in 1..Len(inserts)}

\* C39: a realtime-frequency replay with maxEvents given (the stream command
\* gives ceil(frequency * duration) and announces it as the expected events),
\* of a file that holds a data point and not stopped, has streamed maxEvents
\* events when it returns, the file holding that many data points or fewer.
C39_StreamsExpectedEvents ==
  (/\ replay.mode = "realtime-frequency"
   /\ replay.phase = "done"
   /\ replayer.stops = 0
   /\ replayer.config.maxEvents > 0
   /\ Len(replay.file) > 0)
    => Cardinality(EventsStreamed) = replayer.config.maxEvents

=============================================================================
